---- MODULE Spec2Model ----
(***************************************************************************)
(* Model of the multi-engine OCR orchestration of ocr-api-v2:              *)
(* OCRFactory.extract_with_fallback (app/services/ocr_factory.py) and the  *)
(* response built from its result by extract_simple                        *)
(* (app/api/v1/endpoints/ocr.py).                                          *)
(*                                                                         *)
(* Confidences are floats in the source; the model keeps them in tenths    *)
(* (6 stands for 0.6).  A recognised text is a sequence of characters so   *)
(* that str.strip() is computed, not assumed.  processing_time is wall     *)
(* clock and is left out of EngineResult.                                  *)
(***************************************************************************)
EXTENDS Naturals, Integers, Sequences, FiniteSets, TLC

\* ------------------------------------------------------------------ bounds
MaxFallbackLen == 2

\* --------------------------------------------------------------- constants
EngineNames == {"paddleocr", "easyocr", "kraken"}
DefaultFallbackOrder == <<"paddleocr", "easyocr", "kraken">>
confidence_threshold == 6
cache_ttl == 3600
max_file_size == 52428800

\* OCRFactory.engines after _initialize_engines_sync: no adapter, one, two
\* or all three initialised
Registries == {{}, {"paddleocr"}, {"easyocr", "kraken"}, EngineNames}

\* values a caller can pass as preferred_engine (schemas/ocr.py OCREngine)
PreferredValues == {"auto"} \cup EngineNames

\* settings.fallback_order as deployed: the default, and an override that
\* reorders, omits a name and repeats one
FallbackOrders == {DefaultFallbackOrder, <<"kraken", "easyocr", "kraken">>}

ConfLevels == {0, 3, 6, 7}
Whitespace == {" "}
ErrorMessages == {"RuntimeError"}

SeqsUpTo(S, n) == UNION {[1..k -> S] : k \in 0..n}
\* recognised texts: empty, blank, and non-blank padded on both sides
Texts == {<<>>, <<" ">>, <<" ", "a", " ">>}

\* Optional[List[str]]: None is [given |-> FALSE]
NoneList == [given |-> FALSE, list |-> <<>>]
FallbackArgs == {NoneList} \cup {[given |-> TRUE, list |-> l] : l \in SeqsUpTo(EngineNames, MaxFallbackLen)}

\* ----------------------------------------------------------------- helpers
\* Python truthiness of an Optional[List]: None and [] are both falsy
Truthy(fe) == fe.given /\ Len(fe.list) > 0

\* [e for e in lst if e != name]
ExcludeName(lst, name) == SelectSeq(lst, LAMBDA e : e # name)

\* [e for e in engine_order if e in self.engines]
FilterAvailableUnfiltered(order, reg) == order
FilterAvailable(order, reg) == SelectSeq(order, LAMBDA e : e \in reg)

\* lines 115-122: the order before filtering
ResolveOrderKeepPreferred(pref, enable, fe, reg, cfg) ==
    IF pref = "auto" \/ pref \notin reg
    THEN IF Truthy(fe) THEN fe.list ELSE cfg
    ELSE IF enable /\ Truthy(fe) THEN <<pref>> \o fe.list
         ELSE IF enable THEN <<pref>> \o cfg
         ELSE <<pref>>
ResolveOrder(pref, enable, fe, reg, cfg) ==
    IF pref = "auto" \/ pref \notin reg
    THEN IF Truthy(fe) THEN fe.list ELSE cfg
    ELSE IF enable /\ Truthy(fe) THEN <<pref>> \o ExcludeName(fe.list, pref)
         ELSE IF enable THEN <<pref>> \o ExcludeName(cfg, pref)
         ELSE <<pref>>

\* lines 112-125 statement by statement, over the lists they touch: arg is
\* the caller's list, cfg is settings.fallback_order, new the list the call
\* builds, ref the list the name engine_order is bound to. Line 115 binds
\* the name to arg or cfg without copying; line 117 binds it to a new list,
\* which lines 119 and 121 extend; line 125 binds it to the list its
\* comprehension builds.
ResolveListsFilteringInPlace(pref, enable, fe, reg, cfg) ==
    LET auto == pref = "auto" \/ pref \notin reg
        ref == IF auto THEN (IF Truthy(fe) THEN "arg" ELSE "cfg") ELSE "new"
        bound == [arg |-> fe.list, cfg |-> cfg, new |-> IF auto THEN <<>> ELSE <<pref>>]
        extended == IF ~auto /\ enable
                    THEN [bound EXCEPT ![ref] = @ \o ExcludeName(IF Truthy(fe) THEN bound.arg ELSE bound.cfg, pref)]
                    ELSE bound
    IN [extended EXCEPT ![ref] = FilterAvailable(extended[ref], reg), !.new = FilterAvailable(extended[ref], reg)]
ResolveLists(pref, enable, fe, reg, cfg) ==
    LET auto == pref = "auto" \/ pref \notin reg
        ref == IF auto THEN (IF Truthy(fe) THEN "arg" ELSE "cfg") ELSE "new"
        bound == [arg |-> fe.list, cfg |-> cfg, new |-> IF auto THEN <<>> ELSE <<pref>>]
        extended == IF ~auto /\ enable
                    THEN [bound EXCEPT ![ref] = @ \o ExcludeName(IF Truthy(fe) THEN bound.arg ELSE bound.cfg, pref)]
                    ELSE bound
    IN [extended EXCEPT !.new = FilterAvailable(extended[ref], reg)]

\* str.strip(): drop leading and trailing whitespace
RECURSIVE LStrip(_)
LStrip(t) == IF t # <<>> /\ Head(t) \in Whitespace THEN LStrip(Tail(t)) ELSE t
RECURSIVE RStrip(_)
RStrip(t) == IF t # <<>> /\ t[Len(t)] \in Whitespace THEN RStrip(SubSeq(t, 1, Len(t) - 1)) ELSE t
Strip(t) == RStrip(LStrip(t))

\* line 150: confidence >= settings.confidence_threshold and len(text.strip()) > 0
AcceptedStrict(text, confidence) == confidence > confidence_threshold /\ Len(Strip(text)) > 0
Accepted(text, confidence) == confidence >= confidence_threshold /\ Len(Strip(text)) > 0

\* line 132: the engine the loop visits at position i
LoopEngineReversed(order, i) == order[Len(order) - i + 1]
LoopEngine(order, i) == order[i]

\* lines 169-171 and the end of the for loop: does the loop go on after attempt i
LoopContinuesIgnoringFlag(enable, i, order) == i < Len(order)
LoopContinues(enable, i, order) == enable /\ i < Len(order)

\* line 174: max(engines_results, key=confidence, default=None) -- the first
\* entry of maximal confidence; 0 stands for None
BestIndexLast(results) ==
    IF results = <<>> THEN 0
    ELSE CHOOSE i \in 1..Len(results) :
            /\ \A j \in 1..Len(results) : results[j].confidence <= results[i].confidence
            /\ \A j \in (i+1)..Len(results) : results[j].confidence < results[i].confidence
BestIndex(results) ==
    IF results = <<>> THEN 0
    ELSE CHOOSE i \in 1..Len(results) :
            /\ \A j \in 1..Len(results) : results[j].confidence <= results[i].confidence
            /\ \A j \in 1..(i-1) : results[j].confidence < results[i].confidence

\* line 175: best_result and best_result.confidence > 0
ShouldReextractNonNegative(results) == BestIndex(results) # 0 /\ results[BestIndex(results)].confidence >= 0
ShouldReextract(results) == BestIndex(results) # 0 /\ results[BestIndex(results)].confidence > 0

\* endpoints/ocr.py line 88
FallbackTriggeredNonEmpty(engines_used) == Len(engines_used) >= 1
FallbackTriggered(engines_used) == Len(engines_used) > 1

\* endpoints/ocr.py line 86
PrimaryEngine(engines_used) == IF engines_used # <<>> THEN engines_used[1].engine ELSE "unknown"

\* EngineResult (schemas/engine.py), without processing_time
SuccessResult(name, confidence) == [engine |-> name, success |-> TRUE, confidence |-> confidence, error |-> "None"]
FailureResult(name, msg) == [engine |-> name, success |-> FALSE, confidence |-> 0, error |-> msg]

NoResult == [text |-> <<>>, confidence |-> 0]

\* --------------------------------------------------- text and extraction
\* Text processing: app/utils/text_utils.py, app/utils/pattern_utils.py,
\* app/utils/date_utils.py, app/extractors/metadata_extractor.py.
\* A str is a sequence of one-character strings; positions are 1-based in
\* the model and converted where the source's 0-based offsets are stored.
\* An Optional value is a record with a field "some".
Digits == {"0", "1", "2", "3", "4", "5", "6", "7", "8", "9"}
UpperCase == <<"A", "B", "C", "D", "E", "F", "G", "H", "I", "J", "K", "L", "M", "N", "O", "P", "Q", "R", "S", "T", "U", "V", "W", "X", "Y", "Z", "É", "È", "Û">>
LowerCase == <<"a", "b", "c", "d", "e", "f", "g", "h", "i", "j", "k", "l", "m", "n", "o", "p", "q", "r", "s", "t", "u", "v", "w", "x", "y", "z", "é", "è", "û">>
Letters == {UpperCase[i] : i \in 1..Len(UpperCase)} \cup {LowerCase[i] : i \in 1..Len(LowerCase)}
\* \s and \w of the re module, restricted to the characters of the model
SpaceChars == {" ", "\n", "\t"}
WordChars == Digits \cup Letters \cup {"_"}
\* [/\\-]
SepChars == {"/", "\\", "-"}

\* Body(x) for x the value of e: a local name, as in  x = e  followed by
\* the statements that use x
With(e, Body(_)) == CHOOSE r \in {Body(x) : x \in {e}} : TRUE

Min(S) == CHOOSE x \in S : \A y \in S : x <= y
Max(S) == CHOOSE x \in S : \A y \in S : y <= x

\* str.lower() of one character
Lower(c) ==
    IF \E i \in 1..Len(UpperCase) : UpperCase[i] = c
    THEN LowerCase[CHOOSE i \in 1..Len(UpperCase) : UpperCase[i] = c]
    ELSE c
ToLower(t) == [i \in 1..Len(t) |-> Lower(t[i])]

None == [some |-> FALSE, val |-> <<>>]
Some(v) == [some |-> TRUE, val |-> v]

\* a literal of a pattern compiled with re.IGNORECASE, matched at position p
IsLit(t, p, lit) ==
    /\ p >= 1
    /\ p + Len(lit) - 1 <= Len(t)
    /\ \A i \in 1..Len(lit) : Lower(t[p + i - 1]) = Lower(lit[i])

\* n characters of class S at position p (\d{n})
AllIn(t, p, n, S) ==
    /\ p >= 1
    /\ p + n - 1 <= Len(t)
    /\ \A i \in 0..(n - 1) : t[p + i] \in S

\* first position >= p whose character is not in S (a greedy S*)
SkipClass(t, p, S) ==
    LET Skip[q \in p..(Len(t) + 1)] == IF q <= Len(t) /\ t[q] \in S THEN Skip[q + 1] ELSE q
    IN IF p > Len(t) THEN p ELSE Skip[p]

\* \b before position p
WordBoundary(t, p) ==
    LET before == p - 1 >= 1 /\ p - 1 <= Len(t) /\ t[p - 1] \in WordChars
        after == p >= 1 /\ p <= Len(t) /\ t[p] \in WordChars
    IN before # after

\* str.find, 1-based, 0 for -1
Find(t, sub) ==
    With({p \in 1..(Len(t) - Len(sub) + 1) : \A i \in 1..Len(sub) : t[p + i - 1] = sub[i]},
         LAMBDA hits : IF hits = {} THEN 0 ELSE Min(hits))
\* sub in s
Contains(t, sub) == Find(t, sub) # 0

\* ---- text_utils.py
\* clean_ocr_artifacts lines 79-94: the substitutions whose left side is a
\* character of the model; no control character other than \n and \t is one
CorrectChar(c) ==
    CASE c = "|" -> "I"
      [] c = "°" -> "o"
      [] OTHER -> c
clean_ocr_artifacts(t) == [i \in 1..Len(t) |-> CorrectChar(t[i])]

\* re.sub(r'\s+', ' ', text)
CollapseSpaces(t) ==
    LET Collapse[p \in 1..(Len(t) + 1)] ==
          IF p > Len(t) THEN <<>>
          ELSE IF t[p] \in SpaceChars THEN <<" ">> \o Collapse[SkipClass(t, p, SpaceChars)]
          ELSE <<t[p]>> \o Collapse[p + 1]
    IN Collapse[1]

\* str.strip() over \s
LStripSpace(t) == SubSeq(t, SkipClass(t, 1, SpaceChars), Len(t))
RStripSpace(t) ==
    With({i \in 1..Len(t) : t[i] \notin SpaceChars},
         LAMBDA kept : IF kept = {} THEN <<>> ELSE SubSeq(t, 1, Max(kept)))
StripSpace(t) == With(LStripSpace(t), RStripSpace)

normalize_whitespace(t) == With(CollapseSpaces(t), StripSpace)

\* MetadataExtractor._clean_text
CleanText(t) == IF t = <<>> THEN <<>> ELSE With(clean_ocr_artifacts(t), normalize_whitespace)

\* ---- pattern_utils.py: the rules
\* a successful match attempt at one position: first position after the
\* match, and groups[0]
NoMatch == [ok |-> FALSE, next |-> 0, group |-> <<>>]
Matched(next, group) == [ok |-> TRUE, next |-> next, group |-> group]

\* [/\\-](\d{n}) at position q
SepDigits(t, q, n) ==
    IF q <= Len(t) /\ t[q] \in SepChars /\ AllIn(t, q + 1, n, Digits)
    THEN Matched(q + 1 + n, SubSeq(t, q + 1, q + n))
    ELSE NoMatch

\* <prefix>[/\\-](\d{n})
PrefixSepDigits(t, p, prefix, n) ==
    IF IsLit(t, p, prefix) THEN SepDigits(t, p + Len(prefix), n) ELSE NoMatch

\* N[°o]?\s*(?:<label>)[:\s]*<prefix>[/\\-](\d{n})
LabelledSepDigits(t, p, label, prefix, n) ==
    IF ~IsLit(t, p, <<"N">>) THEN NoMatch
    ELSE LET q1 == IF p + 1 <= Len(t) /\ Lower(t[p + 1]) \in {"°", "o"} THEN p + 2 ELSE p + 1
             q2 == SkipClass(t, q1, SpaceChars)
         IN IF ~IsLit(t, q2, label) THEN NoMatch
            ELSE PrefixSepDigits(t, SkipClass(t, q2 + Len(label), SpaceChars \cup {":"}), prefix, n)

\* <prefix><class>+(\d{n})
PrefixGapDigits(t, p, prefix, gap, n) ==
    IF ~IsLit(t, p, prefix) THEN NoMatch
    ELSE LET q == SkipClass(t, p + Len(prefix), gap)
         IN IF q > p + Len(prefix) /\ AllIn(t, q, n, Digits)
            THEN Matched(q + n, SubSeq(t, q, q + n - 1))
            ELSE NoMatch

\* [..][..]<rest>[/\\-](\d{n}): one character of each class, then a literal
ClassesSepDigits(t, p, classes, rest, n) ==
    IF /\ p + Len(classes) - 1 <= Len(t)
       /\ \A i \in 1..Len(classes) : Lower(t[p + i - 1]) \in classes[i]
       /\ IsLit(t, p + Len(classes), rest)
    THEN SepDigits(t, p + Len(classes) + Len(rest), n)
    ELSE NoMatch

\* \b(20[1-3][0-9])\b
YearOnly(t, p) ==
    IF /\ p + 3 <= Len(t)
       /\ WordBoundary(t, p)
       /\ t[p] = "2" /\ t[p + 1] = "0" /\ t[p + 2] \in {"1", "2", "3"} /\ t[p + 3] \in Digits
       /\ WordBoundary(t, p + 4)
    THEN Matched(p + 4, SubSeq(t, p, p + 3))
    ELSE NoMatch

\* (?:FCFA|F\s*CFA|francs?\s*CFA) at position q: the position after it, 0
\* when no alternative matches; francs tells whether the third is offered
CurrencyEnd(t, q, francs) ==
    IF IsLit(t, q, <<"F", "C", "F", "A">>) THEN q + 4
    ELSE IF IsLit(t, q, <<"F">>) /\ IsLit(t, SkipClass(t, q + 1, SpaceChars), <<"C", "F", "A">>)
         THEN SkipClass(t, q + 1, SpaceChars) + 3
    ELSE IF francs /\ IsLit(t, q, <<"f", "r", "a", "n", "c">>)
         THEN LET s == IF IsLit(t, q + 5, <<"s">>) THEN q + 6 ELSE q + 5
                  c == SkipClass(t, s, SpaceChars)
              IN IF IsLit(t, c, <<"C", "F", "A">>) THEN c + 3 ELSE 0
    ELSE 0

\* \b(<class>+)\s*(?:<currency>)\b
RunThenCurrency(t, p, class, francs) ==
    LET q == SkipClass(t, p, class)
        e == CurrencyEnd(t, SkipClass(t, q, SpaceChars), francs)
    IN IF WordBoundary(t, p) /\ q > p /\ e # 0 /\ WordBoundary(t, e)
       THEN Matched(e, SubSeq(t, p, q - 1))
       ELSE NoMatch

\* <label>[:\s]+(<class>+): the gap is greedy and gives characters back
\* until the group can start
LabelGapRun(t, p, label, class) ==
    IF ~IsLit(t, p, label) THEN NoMatch
    ELSE LET a == p + Len(label)
             g == SkipClass(t, a, SpaceChars \cup {":"})
             starts == {s \in (a + 1)..g : s <= Len(t) /\ t[s] \in class}
         IN IF starts = {} THEN NoMatch
            ELSE LET s == CHOOSE x \in starts : \A y \in starts : y <= x
                     e == SkipClass(t, s, class)
                 IN Matched(e, SubSeq(t, s, e - 1))

\* the first label of the alternation that matches
RECURSIVE AnyLabelGapRun(_, _, _, _)
AnyLabelGapRun(t, p, labels, class) ==
    IF labels = <<>> THEN NoMatch
    ELSE IF LabelGapRun(t, p, Head(labels), class).ok THEN LabelGapRun(t, p, Head(labels), class)
    ELSE AnyLabelGapRun(t, p, Tail(labels), class)

\* (?:Montant|Total|Somme)[:\s]+([\d\s,\.]+)\s*(?:FCFA)?
AmountWithLabel(t, p) ==
    LET m == AnyLabelGapRun(t, p, <<<<"M", "o", "n", "t", "a", "n", "t">>, <<"T", "o", "t", "a", "l">>, <<"S", "o", "m", "m", "e">>>>, Digits \cup SpaceChars \cup {",", "."})
    IN IF m.ok /\ IsLit(t, m.next, <<"F", "C", "F", "A">>) THEN Matched(m.next + 4, m.group) ELSE m

\* pattern.match at position p, by rule name
MatchAt(name, t, p) ==
    CASE name = "mandat_standard" -> PrefixSepDigits(t, p, <<"M", "D">>, 7)
      [] name = "mandat_with_label" -> LabelledSepDigits(t, p, <<"M", "a", "n", "d", "a", "t">>, <<"M", "D">>, 7)
      [] name = "mandat_with_space" -> PrefixGapDigits(t, p, <<"M", "D">>, SpaceChars, 7)
      [] name = "mandat_ocr_variant" -> ClassesSepDigits(t, p, <<{"m", "n"}, {"d", "o"}>>, <<>>, 7)
      [] name = "bordereau_standard" -> PrefixSepDigits(t, p, <<"B", "O", "R">>, 7)
      [] name = "bordereau_with_label" -> LabelledSepDigits(t, p, <<"B", "o", "r", "d", "e", "r", "e", "a", "u">>, <<"B", "O", "R">>, 7)
      [] name = "bordereau_with_space" -> PrefixGapDigits(t, p, <<"B", "O", "R">>, SpaceChars, 7)
      [] name = "bordereau_ocr_variant" -> ClassesSepDigits(t, p, <<{"b", "8"}>>, <<"O", "R">>, 7)
      [] name = "exercice_with_label" -> PrefixGapDigits(t, p, <<"E", "x", "e", "r", "c", "i", "c", "e">>, SpaceChars \cup {":"}, 4)
      [] name = "exercice_year_only" -> YearOnly(t, p)
      [] name = "exercice_gb" -> PrefixSepDigits(t, p, <<"G", "B">>, 4)
      [] name = "amount_with_spaces" -> RunThenCurrency(t, p, Digits \cup SpaceChars, TRUE)
      [] name = "amount_with_separators" -> RunThenCurrency(t, p, Digits \cup {",", "."}, FALSE)
      [] name = "amount_with_label" -> AmountWithLabel(t, p)
      [] name = "beneficiaire_with_label" ->
           AnyLabelGapRun(t, p, <<<<"B", "é", "n", "é", "f", "i", "c", "i", "a", "i", "r", "e">>, <<"B", "e", "n", "e", "f", "i", "c", "i", "a", "i", "r", "e">>>>, Letters \cup SpaceChars)

RegexPattern(name, priority) == [name |-> name, priority |-> priority]
MANDAT_PATTERNS ==
    <<RegexPattern("mandat_standard", 10), RegexPattern("mandat_with_label", 9),
      RegexPattern("mandat_with_space", 5), RegexPattern("mandat_ocr_variant", 3)>>
BORDEREAU_PATTERNS ==
    <<RegexPattern("bordereau_standard", 10), RegexPattern("bordereau_with_label", 9),
      RegexPattern("bordereau_with_space", 5), RegexPattern("bordereau_ocr_variant", 3)>>
EXERCICE_PATTERNS ==
    <<RegexPattern("exercice_with_label", 10), RegexPattern("exercice_year_only", 5),
      RegexPattern("exercice_gb", 8)>>
AMOUNT_PATTERNS ==
    <<RegexPattern("amount_with_spaces", 10), RegexPattern("amount_with_separators", 9),
      RegexPattern("amount_with_label", 8)>>
BENEFICIAIRE_PATTERNS == <<RegexPattern("beneficiaire_with_label", 10)>>

\* re finditer over a text of n characters: the leftmost non-overlapping
\* matches, left to right. at[p] is the match attempt at position p, and
\* Item(p, m) the items kept for a match m found at p.
Leftmost(n, at, Item(_, _)) ==
    LET From[p \in 1..(n + 1)] ==
          With({h \in p..n : at[h].ok},
               LAMBDA hits : IF hits = {} THEN <<>>
                             ELSE Item(Min(hits), at[Min(hits)]) \o From[at[Min(hits)].next])
    IN From[1]

\* pattern.finditer(text), lines 181-194
FindIter(rule, t) ==
    With([p \in 1..Len(t) |-> MatchAt(rule.name, t, p)],
         LAMBDA at : Leftmost(Len(t), at,
                              LAMBDA p, m : <<[match |-> SubSeq(t, p, m.next - 1), groups |-> <<m.group>>,
                                               pattern_name |-> rule.name, priority |-> rule.priority,
                                               start |-> p - 1, end |-> m.next - 1]>>))

\* lines 180-194: the matches in discovery order
Discover(t, patterns) ==
    LET Upto[k \in 0..Len(patterns)] ==
          IF k = 0 THEN <<>> ELSE Upto[k - 1] \o FindIter(patterns[k], t)
    IN Upto[Len(patterns)]

\* list.sort(key=priority, reverse=True) is stable: an element goes after
\* every element already placed whose key is not smaller
InsertByPriorityBeforeEquals(sorted, m) ==
    LET k == Cardinality({i \in 1..Len(sorted) : sorted[i].priority > m.priority})
    IN SubSeq(sorted, 1, k) \o <<m>> \o SubSeq(sorted, k + 1, Len(sorted))
InsertByPriority(sorted, m) ==
    LET k == Cardinality({i \in 1..Len(sorted) : sorted[i].priority >= m.priority})
    IN SubSeq(sorted, 1, k) \o <<m>> \o SubSeq(sorted, k + 1, Len(sorted))

SortByPriority(ms) ==
    LET Sorted[k \in 0..Len(ms)] ==
          IF k = 0 THEN <<>>
          ELSE With(Sorted[k - 1], LAMBDA sorted : InsertByPriority(sorted, ms[k]))
    IN Sorted[Len(ms)]

\* PatternMatcher.find_all_matches
find_all_matches(t, patterns) == With(Discover(t, patterns), SortByPriority)

\* PatternMatcher.find_best_match
find_best_match(t, patterns) ==
    With(find_all_matches(t, patterns),
         LAMBDA matches : IF matches # <<>> THEN Some(matches[1]) ELSE None)

\* PatternMatcher.extract_mandat, extract_bordereau: groups[0] of the best match
BestGroup(t, patterns) ==
    With(find_best_match(t, patterns),
         LAMBDA best : IF best.some /\ best.val.groups # <<>> THEN Some(best.val.groups[1]) ELSE None)

\* int() of a string of ASCII digits
DigitValue(c) == CHOOSE d \in 0..9 : ToString(d) = c
ToInt(ds) ==
    LET Value[k \in 0..Len(ds)] == IF k = 0 THEN 0 ELSE 10 * Value[k - 1] + DigitValue(ds[k])
    IN Value[Len(ds)]
IsDigitStr(s) == s # <<>> /\ \A i \in 1..Len(s) : s[i] \in Digits

\* PatternMatcher.extract_exercice lines 224-233
PatternMatcher_extract_exercice(t) ==
    With(BestGroup(t, EXERCICE_PATTERNS),
         LAMBDA best : IF best.some /\ IsDigitStr(best.val) /\ 2015 <= ToInt(best.val) /\ ToInt(best.val) <= 2030
                       THEN best
                       ELSE None)

\* PatternMatcher.validate_mandat_format lines 259-270
YearPrefixes == {<<"2", "4">>, <<"2", "3">>, <<"2", "2">>, <<"2", "1">>, <<"2", "0">>, <<"1", "9">>, <<"2", "5">>, <<"2", "6">>}
validate_mandat_format_any_prefix(number) == IsDigitStr(number) /\ Len(number) = 7
validate_mandat_format(number) ==
    /\ IsDigitStr(number)
    /\ Len(number) = 7
    /\ SubSeq(number, 1, 2) \in YearPrefixes
\* PatternMatcher.validate_bordereau_format
validate_bordereau_format(number) == validate_mandat_format(number)
\* PatternMatcher.extract_all_amounts lines 248-257 (every rule has a group)
GroupsOf(ms) == [i \in 1..Len(ms) |-> ms[i].groups[1]]
extract_all_amounts(t) == With(find_all_matches(t, AMOUNT_PATTERNS), GroupsOf)

\* re.sub(r'(?:FCFA|F\s*CFA|francs?\s*CFA)', '', s, flags=re.IGNORECASE)
RemoveCurrency(t) ==
    LET Rest[p \in 1..(Len(t) + 1)] ==
          IF p > Len(t) THEN <<>>
          ELSE IF CurrencyEnd(t, p, TRUE) # 0 THEN Rest[CurrencyEnd(t, p, TRUE)]
          ELSE <<t[p]>> \o Rest[p + 1]
    IN Rest[1]

\* str.replace(c, '')
Without(t, c) == SelectSeq(t, LAMBDA x : x # c)

\* lines 330-333: with more than one '.', all but the last are removed
KeepLastDot(t) ==
    With({i \in 1..Len(t) : t[i] = "."},
         LAMBDA dots : IF Cardinality(dots) > 1
                       THEN Without(SubSeq(t, 1, Max(dots) - 1), ".") \o SubSeq(t, Max(dots), Len(t))
                       ELSE t)

\* float(s) for s without sign, exponent, underscore, inf or nan (no input
\* of the model has one): digits with at most one '.', at least one digit.
\* The value is digits / 10^scale.
ParseFloat(s) ==
    With({i \in 1..Len(s) : s[i] = "."},
         LAMBDA dots : IF Cardinality(dots) <= 1 /\ IsDigitStr(Without(s, "."))
                       THEN Some([digits |-> ToInt(Without(s, ".")),
                                  scale |-> IF dots = {} THEN 0 ELSE Len(s) - Min(dots)])
                       ELSE None)

\* float() accepts surrounding whitespace
FloatOf(s) == With(StripSpace(s), ParseFloat)

\* lines 321-325: the currency removed, then strip()
StripCurrency(s) == With(RemoveCurrency(s), StripSpace)
\* lines 326-327
DropSpaces(s) == Without(s, " ")
DropSeparators(s) == Without(Without(s, " "), ",")

\* normalize_amount lines 311-338
normalize_amount_keeping_commas(amount_str) ==
    IF amount_str = <<>> THEN None
    ELSE With(With(With(StripCurrency(amount_str), DropSpaces), KeepLastDot), FloatOf)
normalize_amount(amount_str) ==
    IF amount_str = <<>> THEN None
    ELSE With(With(With(StripCurrency(amount_str), DropSeparators), KeepLastDot), FloatOf)

Pow10(n) == LET P[k \in 0..n] == IF k = 0 THEN 1 ELSE 10 * P[k - 1] IN P[n]
\* int(x) of a non-negative float
IntPart(v) == v.digits \div Pow10(v.scale)

\* str(n) of a natural number
IntToStr(n) ==
    LET Str[m \in 0..n] == IF m < 10 THEN <<ToString(m)>> ELSE Str[m \div 10] \o <<ToString(m % 10)>>
    IN Str[n]
\* zero-padded to a width
Pad(s, w) == IF Len(s) >= w THEN s ELSE [i \in 1..(w - Len(s)) |-> "0"] \o s

\* f"{n:,}".replace(',', ' ')
Grouped(n) ==
    LET Str[m \in 0..n] ==
          IF m < 1000 THEN IntToStr(m) ELSE Str[m \div 1000] \o <<" ">> \o Pad(IntToStr(m % 1000), 3)
    IN Str[n]

\* the words searched in the text before a match, in the order of the elif chain
AnyIn(context, words) == \E i \in 1..Len(words) : Contains(context, words[i])
Categorize(context, table) ==
    With({k \in 1..Len(table) : AnyIn(context, table[k].words)},
         LAMBDA hits : IF hits = {} THEN "autre" ELSE table[Min(hits)].type)

\* full_text.lower().find(s.lower()), 1-based, 0 for -1
FindLower(s, full_text) ==
    With(ToLower(full_text), LAMBDA lt : With(ToLower(s), LAMBDA ls : Find(lt, ls)))

\* full_text[max(0, pos - n):pos].lower() for pos the 1-based position
ContextBefore(pos, full_text, n) ==
    ToLower(SubSeq(full_text, IF pos - n > 1 THEN pos - n ELSE 1, pos - 1))

\* lines 289-305 and 318-332: "autre" without an occurrence, else the first
\* category one of whose words is in the n characters before it
CategorizeBy(s, full_text, n, table) ==
    With(FindLower(s, full_text),
         LAMBDA pos : IF pos = 0 THEN "autre"
                      ELSE With(ContextBefore(pos, full_text, n),
                                LAMBDA context : Categorize(context, table)))

AmountWords ==
    <<[type |-> "total", words |-> <<<<"t", "o", "t", "a", "l">>, <<"s", "o", "m", "m", "e">>>>],
      [type |-> "net", words |-> <<<<"n", "e", "t">>>>],
      [type |-> "brut", words |-> <<<<"b", "r", "u", "t">>>>],
      [type |-> "taxe", words |-> <<<<"t", "a", "x", "e">>, <<"t", "v", "a">>, <<"i", "m", "p", "o", "t">>, <<"i", "m", "p", "ô", "t">>>>]>>

\* MetadataExtractor._categorize_amount lines 307-332
CategorizeAmount(amount_str, full_text) == CategorizeBy(amount_str, full_text, 30, AmountWords)

\* lines 190-204: one record per raw amount that normalises to a positive value
AmountRecord(raw, normalized, t) ==
    IF normalized.some /\ normalized.val.digits > 0
    THEN <<[value |-> normalized.val, currency |-> "XAF",
            formatted |-> Grouped(IntPart(normalized.val)) \o <<" ", "F", "C", "F", "A">>,
            type |-> CategorizeAmount(raw, t), confidence |-> 85]>>
    ELSE <<>>
AmountRecords(raw, t) ==
    LET Upto[k \in 0..Len(raw)] ==
          IF k = 0 THEN <<>>
          ELSE Upto[k - 1] \o With(normalize_amount(raw[k]),
                                    LAMBDA normalized : AmountRecord(raw[k], normalized, t))
    IN Upto[Len(raw)]

\* MetadataExtractor.extract_amounts lines 180-204
extract_amounts(t) ==
    IF t = <<>> THEN <<>> ELSE With(extract_all_amounts(t), LAMBDA raw : AmountRecords(raw, t))

\* ---- date_utils.py
MOIS_FR ==
    <<[mois |-> <<"j", "a", "n", "v", "i", "e", "r">>, num |-> 1], [mois |-> <<"f", "e", "v", "r", "i", "e", "r">>, num |-> 2], [mois |-> <<"f", "é", "v", "r", "i", "e", "r">>, num |-> 2],
      [mois |-> <<"m", "a", "r", "s">>, num |-> 3], [mois |-> <<"a", "v", "r", "i", "l">>, num |-> 4], [mois |-> <<"m", "a", "i">>, num |-> 5],
      [mois |-> <<"j", "u", "i", "n">>, num |-> 6], [mois |-> <<"j", "u", "i", "l", "l", "e", "t">>, num |-> 7], [mois |-> <<"a", "o", "u", "t">>, num |-> 8],
      [mois |-> <<"a", "o", "û", "t">>, num |-> 8], [mois |-> <<"s", "e", "p", "t", "e", "m", "b", "r", "e">>, num |-> 9], [mois |-> <<"o", "c", "t", "o", "b", "r", "e">>, num |-> 10],
      [mois |-> <<"n", "o", "v", "e", "m", "b", "r", "e">>, num |-> 11], [mois |-> <<"d", "e", "c", "e", "m", "b", "r", "e">>, num |-> 12], [mois |-> <<"d", "é", "c", "e", "m", "b", "r", "e">>, num |-> 12]>>

\* datetime(year, month, day) raises ValueError outside the calendar
IsLeap(y) == (y % 4 = 0 /\ y % 100 # 0) \/ y % 400 = 0
DaysIn(y, m) == IF m = 2 THEN (IF IsLeap(y) THEN 29 ELSE 28) ELSE IF m \in {4, 6, 9, 11} THEN 30 ELSE 31
ValidDate(y, m, d) == y >= 1 /\ y <= 9999 /\ m >= 1 /\ m <= 12 /\ d >= 1 /\ d <= DaysIn(y, m)

NoDate == [ok |-> FALSE, next |-> 0, year |-> 0, month |-> 0, day |-> 0]
DateAt(next, y, m, d) == [ok |-> TRUE, next |-> next, year |-> y, month |-> m, day |-> d]

\* \b(\d{a})[/\-](\d{2})[/\-](\d{b})\b with (a, b) = (2, 4) or (4, 2)
NumericDate(t, p, a, b) ==
    IF /\ WordBoundary(t, p)
       /\ AllIn(t, p, a, Digits)
       /\ p + a <= Len(t) /\ t[p + a] \in {"/", "-"}
       /\ AllIn(t, p + a + 1, 2, Digits)
       /\ p + a + 3 <= Len(t) /\ t[p + a + 3] \in {"/", "-"}
       /\ AllIn(t, p + a + 4, b, Digits)
       /\ WordBoundary(t, p + a + 4 + b)
    THEN LET first == ToInt(SubSeq(t, p, p + a - 1))
             month == ToInt(SubSeq(t, p + a + 1, p + a + 2))
             last == ToInt(SubSeq(t, p + a + 4, p + a + 3 + b))
         IN IF a = 2 THEN DateAt(p + a + 4 + b, last, month, first)
            ELSE DateAt(p + a + 4 + b, first, month, last)
    ELSE NoDate

\* \b(\d{1,2})\s+<mois>\s+(\d{4})\b with re.IGNORECASE
TextDate(t, p, m) ==
    LET d == IF AllIn(t, p, 2, Digits) THEN 2 ELSE 1
        q == SkipClass(t, p + d, SpaceChars)
        r == q + Len(m.mois)
        y == SkipClass(t, r, SpaceChars)
    IN IF /\ WordBoundary(t, p)
          /\ AllIn(t, p, d, Digits)
          /\ q > p + d
          /\ IsLit(t, q, m.mois)
          /\ y > r
          /\ AllIn(t, y, 4, Digits)
          /\ WordBoundary(t, y + 4)
       THEN DateAt(y + 4, ToInt(SubSeq(t, y, y + 3)), m.num, ToInt(SubSeq(t, p, p + d - 1)))
       ELSE NoDate

DateMatchAt(kind, t, p) ==
    CASE kind.format = "JJ/MM/AAAA" -> NumericDate(t, p, 2, 4)
      [] kind.format = "AAAA-MM-JJ" -> NumericDate(t, p, 4, 2)
      [] kind.format = "JJ Mois AAAA" -> TextDate(t, p, kind.mois)

\* re.finditer and the try/except ValueError around datetime()
DateIter(kind, t) ==
    With([p \in 1..Len(t) |-> DateMatchAt(kind, t, p)],
         LAMBDA at : Leftmost(Len(t), at,
                              LAMBDA p, m : IF ValidDate(m.year, m.month, m.day)
                                            THEN <<[date |-> [year |-> m.year, month |-> m.month, day |-> m.day],
                                                    raw |-> SubSeq(t, p, m.next - 1), format |-> kind.format,
                                                    position |-> p - 1]>>
                                            ELSE <<>>))

MonthDates(t, months) ==
    LET Upto[k \in 0..Len(months)] ==
          IF k = 0 THEN <<>>
          ELSE Upto[k - 1] \o DateIter([format |-> "JJ Mois AAAA", mois |-> months[k]], t)
    IN Upto[Len(months)]

\* dates.sort(key=position): stable, ascending
InsertByPosition(sorted, m) ==
    LET k == Cardinality({i \in 1..Len(sorted) : sorted[i].position <= m.position})
    IN SubSeq(sorted, 1, k) \o <<m>> \o SubSeq(sorted, k + 1, Len(sorted))
SortByPosition(ds) ==
    LET Sorted[k \in 0..Len(ds)] ==
          IF k = 0 THEN <<>>
          ELSE With(Sorted[k - 1], LAMBDA sorted : InsertByPosition(sorted, ds[k]))
    IN Sorted[Len(ds)]

\* extract_dates_from_text lines 123-185
extract_dates_from_text(t) ==
    IF t = <<>> THEN <<>>
    ELSE With(DateIter([format |-> "JJ/MM/AAAA"], t)
              \o DateIter([format |-> "AAAA-MM-JJ"], t)
              \o MonthDates(t, MOIS_FR),
              SortByPosition)

\* datetime.isoformat() of a date at midnight
isoformat(d) ==
    Pad(IntToStr(d.year), 4) \o <<"-">> \o Pad(IntToStr(d.month), 2) \o <<"-">> \o Pad(IntToStr(d.day), 2)
        \o <<"T", "0", "0", ":", "0", "0", ":", "0", "0">>

\* format_date_french: strftime('%d/%m/%Y')
format_date_french(d) ==
    Pad(IntToStr(d.day), 2) \o <<"/">> \o Pad(IntToStr(d.month), 2) \o <<"/">> \o Pad(IntToStr(d.year), 4)

DateWords ==
    <<[type |-> "emission", words |-> <<<<"é", "m", "i", "s", "s", "i", "o", "n">>, <<"e", "m", "i", "s", "s", "i", "o", "n">>, <<"é", "m", "i", "s">>, <<"e", "m", "i", "s">>, <<"f", "a", "i", "t">>>>],
      [type |-> "paiement", words |-> <<<<"p", "a", "i", "e", "m", "e", "n", "t">>, <<"p", "a", "y", "é">>, <<"p", "a", "y", "e">>, <<"r", "è", "g", "l", "e", "m", "e", "n", "t">>, <<"r", "e", "g", "l", "e", "m", "e", "n", "t">>>>],
      [type |-> "signature", words |-> <<<<"s", "i", "g", "n", "é">>, <<"s", "i", "g", "n", "e">>, <<"s", "i", "g", "n", "a", "t", "u", "r", "e">>>>],
      [type |-> "echeance", words |-> <<<<"é", "c", "h", "é", "a", "n", "c", "e">>, <<"e", "c", "h", "e", "a", "n", "c", "e">>, <<"l", "i", "m", "i", "t", "e">>>>]>>

\* MetadataExtractor._categorize_date lines 278-305
CategorizeDate(date_str, full_text) == CategorizeBy(date_str, full_text, 50, DateWords)

\* MetadataExtractor.extract_dates lines 157-178
DateRecords(parsed, t) ==
    [i \in 1..Len(parsed) |->
        [value |-> isoformat(parsed[i].date), formatted |-> parsed[i].raw,
         type |-> CategorizeDate(parsed[i].raw, t), confidence |-> 80]]
extract_dates(t) ==
    IF t = <<>> THEN <<>> ELSE With(extract_dates_from_text(t), LAMBDA parsed : DateRecords(parsed, t))

\* MetadataExtractor.extract_beneficiaire lines 206-236
extract_beneficiaire(t) ==
    IF t = <<>> THEN None
    ELSE With(find_all_matches(t, BENEFICIAIRE_PATTERNS),
              LAMBDA matches : IF matches = <<>> THEN None
                               ELSE Some([name |-> StripSpace(matches[1].groups[1]), confidence |-> 75]))
\* ---- metadata_extractor.py
\* confidences of this part are in hundredths (85 stands for 0.85)
NoDocumentInfo == [some |-> FALSE, type |-> "", number |-> <<>>, full_reference |-> <<>>, confidence |-> 0, coordinates |-> 0]
DocumentInfo(type, number, full_reference, confidence, coordinates) ==
    [some |-> TRUE, type |-> type, number |-> number, full_reference |-> full_reference,
     confidence |-> confidence, coordinates |-> coordinates]

format_mandat_reference(number) == <<"M", "D", "/">> \o number
format_bordereau_reference(number) == <<"B", "O", "R", "/">> \o number

\* MetadataExtractor._find_coordinates lines 255-276: the first item whose
\* text contains the reference, compared in lower case; bbox 0 is None
InLower(sub, t) == With(ToLower(t), LAMBDA lt : With(ToLower(sub), LAMBDA lsub : Contains(lt, lsub)))
FindCoordinates(search_text, items) ==
    With({i \in 1..Len(items) : InLower(search_text, items[i].text)},
         LAMBDA hits : IF hits = {} THEN None
                       ELSE Some([bbox |-> items[Min(hits)].bbox,
                                  confidence |-> IF items[Min(hits)].confidence.some
                                                 THEN items[Min(hits)].confidence.val
                                                 ELSE 85]))

\* lines 86-106 and 121-139 without the validation of lines 92-94 and 127-129
ExtractDocumentUnvalidated(type, candidate, valid, reference, coordinates) ==
    IF ~candidate.some \/ candidate.val = <<>> THEN NoDocumentInfo
    ELSE With(IF coordinates.some /\ coordinates.val # <<>>
              THEN FindCoordinates(reference, coordinates.val)
              ELSE None,
              LAMBDA bbox : DocumentInfo(type, candidate.val, reference,
                                         IF bbox.some THEN bbox.val.confidence ELSE 85,
                                         IF bbox.some THEN bbox.val.bbox ELSE 0))
\* lines 86-106 and 121-139, after the early return on an empty text
ExtractDocument(type, candidate, valid, reference, coordinates) ==
    IF ~candidate.some \/ candidate.val = <<>> THEN NoDocumentInfo
    ELSE IF ~valid THEN NoDocumentInfo
    ELSE With(IF coordinates.some /\ coordinates.val # <<>>
              THEN FindCoordinates(reference, coordinates.val)
              ELSE None,
              LAMBDA bbox : DocumentInfo(type, candidate.val, reference,
                                         IF bbox.some THEN bbox.val.confidence ELSE 85,
                                         IF bbox.some THEN bbox.val.bbox ELSE 0))

\* MetadataExtractor.extract_mandat lines 72-106
extract_mandat(t, coordinates) ==
    IF t = <<>> THEN NoDocumentInfo
    ELSE With(BestGroup(t, MANDAT_PATTERNS),
              LAMBDA number : ExtractDocument("mandat", number, validate_mandat_format(number.val),
                                              format_mandat_reference(number.val), coordinates))

\* MetadataExtractor.extract_bordereau lines 108-139
extract_bordereau(t, coordinates) ==
    IF t = <<>> THEN NoDocumentInfo
    ELSE With(BestGroup(t, BORDEREAU_PATTERNS),
              LAMBDA number : ExtractDocument("bordereau", number, validate_bordereau_format(number.val),
                                              format_bordereau_reference(number.val), coordinates))

\* MetadataExtractor.extract_exercice lines 141-155
extract_exercice(t) == IF t = <<>> THEN None ELSE PatternMatcher_extract_exercice(t)

\* MetadataExtractor._empty_metadata
EmptyMetadata ==
    [mandat |-> NoDocumentInfo, bordereau |-> NoDocumentInfo, exercice |-> None,
     dates |-> <<>>, amounts |-> <<>>, beneficiaire |-> None]

\* lines 53-61: the record built from the cleaned text
ExtractFrom(clean_text, coordinates) ==
    [mandat |-> extract_mandat(clean_text, coordinates),
     bordereau |-> extract_bordereau(clean_text, coordinates),
     exercice |-> extract_exercice(clean_text),
     dates |-> extract_dates(clean_text),
     amounts |-> extract_amounts(clean_text),
     beneficiaire |-> extract_beneficiaire(clean_text)]

\* MetadataExtractor.extract_all lines 31-70
extract_all(t, coordinates) ==
    IF t = <<>> THEN EmptyMetadata
    ELSE With(CleanText(t), LAMBDA clean_text : ExtractFrom(clean_text, coordinates))

\* truthiness of metadata.get('exercice'): None and '' are falsy
HasExercice(metadata) == metadata.exercice.some /\ metadata.exercice.val # <<>>

\* int(s) for s without sign or underscore: digits, surrounded by whitespace
IsIntStr(s) == IsDigitStr(StripSpace(s))

\* s[-2:]
LastTwo(s) == IF Len(s) <= 2 THEN s ELSE SubSeq(s, Len(s) - 1, Len(s))
\* s[:2]
FirstTwo(s) == IF Len(s) <= 2 THEN s ELSE SubSeq(s, 1, 2)

\* the greatest common divisor of a and b, for b >= 1
Gcd(a, b) == Max({d \in 1..b : a % d = 0 /\ b % d = 0})
\* a quotient of two floats, kept exact: num / den in hundredths
Quotient(num, den) ==
    IF num = 0 THEN [num |-> 0, den |-> 1]
    ELSE [num |-> num \div Gcd(num, den), den |-> den \div Gcd(num, den)]

\* MetadataExtractor._calculate_overall_confidence lines 404-440; the
\* weights are in tenths
calculate_overall_confidence_fixed_total(metadata) ==
    LET weighted_sum == (IF metadata.mandat.some THEN metadata.mandat.confidence * 4 ELSE 0)
                        + (IF metadata.bordereau.some THEN metadata.bordereau.confidence * 3 ELSE 0)
                        + (IF HasExercice(metadata) THEN 90 * 2 ELSE 0)
                        + (IF metadata.dates # <<>> \/ metadata.amounts # <<>> THEN 80 * 1 ELSE 0)
    IN Quotient(weighted_sum, 10)
calculate_overall_confidence(metadata) ==
    LET weighted_sum == (IF metadata.mandat.some THEN metadata.mandat.confidence * 4 ELSE 0)
                        + (IF metadata.bordereau.some THEN metadata.bordereau.confidence * 3 ELSE 0)
                        + (IF HasExercice(metadata) THEN 90 * 2 ELSE 0)
                        + (IF metadata.dates # <<>> \/ metadata.amounts # <<>> THEN 80 * 1 ELSE 0)
        total_weight == (IF metadata.mandat.some THEN 4 ELSE 0)
                        + (IF metadata.bordereau.some THEN 3 ELSE 0)
                        + (IF HasExercice(metadata) THEN 2 ELSE 0)
                        + (IF metadata.dates # <<>> \/ metadata.amounts # <<>> THEN 1 ELSE 0)
    IN IF total_weight = 0 THEN Quotient(0, 1) ELSE Quotient(weighted_sum, total_weight)

\* lines 359-365 and 367-373
DocumentIssues(doc, valid, format_message, missing_message) ==
    IF doc.some
    THEN [errors |-> IF ~valid THEN <<format_message \o doc.number>> ELSE <<>>,
          warnings |-> <<>>]
    ELSE [errors |-> <<>>, warnings |-> <<missing_message>>]

\* lines 375-385
ExerciceIssues(metadata) ==
    IF HasExercice(metadata)
    THEN IF IsIntStr(metadata.exercice.val)
         THEN [errors |-> <<>>,
               warnings |-> IF ~(2015 <= ToInt(StripSpace(metadata.exercice.val))
                                  /\ ToInt(StripSpace(metadata.exercice.val)) <= 2030)
                            THEN <<<<"E", "x", "e", "r", "c", "i", "c", "e", " ", "h", "o", "r", "s", " ", "p", "l", "a", "g", "e", " ", "v", "a", "l", "i", "d", "e", ":", " ">> \o metadata.exercice.val>>
                            ELSE <<>>]
         ELSE [errors |-> <<<<"E", "x", "e", "r", "c", "i", "c", "e", " ", "i", "n", "v", "a", "l", "i", "d", "e", ":", " ">> \o metadata.exercice.val>>, warnings |-> <<>>]
    ELSE [errors |-> <<>>, warnings |-> <<<<"A", "u", "c", "u", "n", " ", "e", "x", "e", "r", "c", "i", "c", "e", " ", "t", "r", "o", "u", "v", "é">>>>]

\* lines 387-395
CoherenceWarningsOnFirstTwo(metadata) ==
    IF metadata.mandat.some /\ HasExercice(metadata)
       /\ FirstTwo(metadata.mandat.number) # FirstTwo(metadata.exercice.val)
    THEN <<<<"I", "n", "c", "o", "h", "é", "r", "e", "n", "c", "e", " ", "a", "n", "n", "é", "e", " ", "m", "a", "n", "d", "a", "t", " ", "(">> \o FirstTwo(metadata.mandat.number)
           \o <<")", " ", "e", "t", " ", "e", "x", "e", "r", "c", "i", "c", "e", " ", "(">> \o FirstTwo(metadata.exercice.val) \o <<")">>>>
    ELSE <<>>
CoherenceWarnings(metadata) ==
    IF metadata.mandat.some /\ HasExercice(metadata)
       /\ FirstTwo(metadata.mandat.number) # LastTwo(metadata.exercice.val)
    THEN <<<<"I", "n", "c", "o", "h", "é", "r", "e", "n", "c", "e", " ", "a", "n", "n", "é", "e", " ", "m", "a", "n", "d", "a", "t", " ", "(">> \o FirstTwo(metadata.mandat.number)
           \o <<")", " ", "e", "t", " ", "e", "x", "e", "r", "c", "i", "c", "e", " ", "(">> \o LastTwo(metadata.exercice.val) \o <<")">>>>
    ELSE <<>>

\* line 398
IsValidWithoutWarnings(errors, warnings) == Len(errors) = 0 /\ Len(warnings) = 0
IsValid(errors, warnings) == Len(errors) = 0

\* MetadataExtractor.validate_extraction lines 349-402
validate_extraction(metadata) ==
    LET mandat == DocumentIssues(metadata.mandat, validate_mandat_format(metadata.mandat.number), <<"F", "o", "r", "m", "a", "t", " ", "m", "a", "n", "d", "a", "t", " ", "i", "n", "v", "a", "l", "i", "d", "e", ":", " ">>, <<"A", "u", "c", "u", "n", " ", "m", "a", "n", "d", "a", "t", " ", "t", "r", "o", "u", "v", "é">>)
        bordereau == DocumentIssues(metadata.bordereau, validate_bordereau_format(metadata.bordereau.number),
                                   <<"F", "o", "r", "m", "a", "t", " ", "b", "o", "r", "d", "e", "r", "e", "a", "u", " ", "i", "n", "v", "a", "l", "i", "d", "e", ":", " ">>, <<"A", "u", "c", "u", "n", " ", "b", "o", "r", "d", "e", "r", "e", "a", "u", " ", "t", "r", "o", "u", "v", "é">>)
        exercice == ExerciceIssues(metadata)
        errors == mandat.errors \o bordereau.errors \o exercice.errors
        warnings == mandat.warnings \o bordereau.warnings \o exercice.warnings \o CoherenceWarnings(metadata)
    IN [done |-> TRUE, is_valid |-> IsValid(errors, warnings), errors |-> errors, warnings |-> warnings,
        confidence |-> calculate_overall_confidence(metadata)]

\* ---- validation_service.py
\* the validators that ValidationService.validate_extraction runs for a
\* record, in the order of lines 58-107
ValidatorsRun(metadata) ==
    <<"format">>
    \o (IF metadata.mandat.some THEN <<"mandat">> ELSE <<>>)
    \o (IF metadata.bordereau.some THEN <<"bordereau">> ELSE <<>>)
    \o <<"business">>
    \o (IF metadata.mandat.some /\ metadata.bordereau.some THEN <<"hierarchy">> ELSE <<>>)

\* all_errors.extend(...) / all_warnings.extend(...) over the validators run
Extend(run, results, field) ==
    LET Upto[k \in 0..Len(run)] == IF k = 0 THEN <<>> ELSE Upto[k - 1] \o results[run[k]][field]
    IN Upto[Len(run)]

\* ValidationService.validate_extraction lines 31-122; results holds what
\* each validator returns (their code is outside this model)
service_validate_extraction(metadata, results) ==
    LET run == ValidatorsRun(metadata)
        all_errors == Extend(run, results, "errors")
        all_warnings == Extend(run, results, "warnings")
    IN [done |-> TRUE, is_valid |-> IsValid(all_errors, all_warnings), errors |-> all_errors, warnings |-> all_warnings,
        summary |-> [total_errors |-> Len(all_errors), total_warnings |-> Len(all_warnings),
                     validators_run |-> Len(run)]]

\* ------------------------------------------------------------------- state
VARIABLES
    engines,            \* OCRFactory.engines: names of the registered adapters
    fallback_order,     \* settings.fallback_order
    preferred_engine, enable_fallback, fallback_engines,   \* arguments of the call
    caller_list,        \* the list the caller passed, as the caller built it
    engine_order,       \* resolved and filtered order
    idx,                \* position of the for loop in engine_order
    engines_results,    \* history
    pc,                 \* "idle", "awaiting", "reawait", "done", "raised"
    path,               \* how the call ended: "none", "empty", "accepted", "reextracted", "exhausted", "error"
    result,             \* returned (text, confidence)
    response,           \* OCRResponse fields the caller builds from the returned tuple
    invoked,            \* engines whose extract_text was awaited, in order
    inflight,           \* extract_text calls started and not yet returned or raised
    last_output         \* outcome of the most recently completed extract_text

args == <<preferred_engine, enable_fallback, fallback_engines, caller_list>>
shared == <<engines, fallback_order>>

VARIABLES
    stage,              \* "idle", "input", "supplied", "extracted", "validated", "aggregated"
    doc_text,           \* the text given to MetadataExtractor.extract_all
    doc_coordinates,    \* its optional coordinate list
    record,             \* the record extract_all returned, or the record a caller supplies
    validation,         \* what MetadataExtractor.validate_extraction returned
    validator_results,  \* what each validator of ValidationService returns for the record
    service_validation  \* what ValidationService.validate_extraction returned

VARIABLES
    subject,            \* the str given to PatternMatcher and to normalize_amount
    rules,              \* the name of the rule list given to PatternMatcher
    found,              \* what each find_all_matches call returned, in order
    best,               \* what find_best_match returned
    amount_value,       \* what normalize_amount(subject) returned
    amount_records      \* what MetadataExtractor.extract_amounts(subject) returned

VARIABLES
    lib_available,      \* PADDLE_AVAILABLE, EASY_AVAILABLE, KRAKEN_AVAILABLE
    adapter_made,       \* adapters the factory has constructed
    is_initialized,     \* BaseOCRService.is_initialized of each adapter
    factory_engines,    \* OCRFactory.engines being filled by _initialize_engines_sync
    init_pc,            \* position of _initialize_engines_sync in AdapterOrder, 0 before it runs
    init_returns        \* per adapter, what its initialize() calls returned, in order

VARIABLES
    lifespan,           \* whether the server runs the startup hook before serving
    instance,           \* _ocr_factory_instance: 0 for None, else the identity of a factory
    constructions,      \* number of OCRFactory() constructions started
    caller_pc,          \* position of each get_ocr_factory() caller
    caller_made,        \* the factory a caller constructed, 0 if none
    caller_got,         \* the factory a caller was returned, 0 before its return
    initialize_runs     \* per backend, how many times an adapter's initialize() ran

VARIABLES
    rec_raised          \* per extract_text awaited, whether the adapter's library call raised

VARIABLES
    utcnow,             \* datetime.utcnow(), in seconds since the service was built
    memory_cache,       \* CacheService.memory_cache: per key, the entry or its absence
    cache_set,          \* per key, the last set(key, ...) not followed by a delete or clear of the key
    cache_got           \* what the get that has just returned gave

VARIABLES
    ACTIVE_REQUESTS,    \* the gauge of core/metrics.py
    REQUEST_COUNT,      \* the counter, per status label
    handler_pc,         \* per wrapped call: "idle", "awaiting", "returned", "raised", "cancelled"
    wrapper_error       \* per wrapped call, the exception raised inside the wrapper's finally

VARIABLES
    files,              \* the storage directory: per file name, the content or its absence
    deleted,            \* doc ids whose delete_document returned True, no save of the content since
    doc_call            \* the DocumentService call that has just returned, and its result

orchestrator == <<engines, fallback_order, preferred_engine, enable_fallback, fallback_engines, caller_list,
                  engine_order, idx, engines_results, pc, path, result, response, invoked, inflight, last_output>>
extraction == <<stage, doc_text, doc_coordinates, record, validation, validator_results, service_validation>>
patterns == <<subject, rules, found, best, amount_value, amount_records>>
adapters == <<lib_available, adapter_made, is_initialized, factory_engines, init_pc, init_returns>>
singleton == <<lifespan, instance, constructions, caller_pc, caller_made, caller_got, initialize_runs>>
recognition == <<rec_raised>>
cache == <<utcnow, memory_cache, cache_set, cache_got>>
metrics == <<ACTIVE_REQUESTS, REQUEST_COUNT, handler_pc, wrapper_error>>
documents == <<files, deleted, doc_call>>

vars == <<orchestrator, extraction, patterns, adapters, singleton, recognition, cache, metrics, documents>>

NoResponse == [built |-> FALSE, primary_engine |-> "unknown", fallback_triggered |-> FALSE, confidence_score |-> 0]
NoOutput == [raised |-> FALSE, text |-> <<>>, confidence |-> 0]

\* endpoints/ocr.py lines 83-95: the response fields derived from the returned tuple
Response(engines_used, confidence) ==
    [built |-> TRUE,
     primary_engine |-> PrimaryEngine(engines_used),
     fallback_triggered |-> FallbackTriggered(engines_used),
     confidence_score |-> confidence]

\* ------------------------------------------------ the components at rest
NoValidation == [done |-> FALSE, is_valid |-> FALSE, errors |-> <<>>, warnings |-> <<>>, confidence |-> Quotient(0, 1)]
NoServiceValidation ==
    [done |-> FALSE, is_valid |-> FALSE, errors |-> <<>>, warnings |-> <<>>,
     summary |-> [total_errors |-> 0, total_warnings |-> 0, validators_run |-> 0]]

\* ValidationResult of a validator: its errors and warnings
ValidatorNames == {"format", "mandat", "bordereau", "business", "hierarchy"}
ValidatorOutcomes ==
    {[errors |-> <<>>, warnings |-> <<>>],
     [errors |-> <<>>, warnings |-> <<"warning">>],
     [errors |-> <<"error">>, warnings |-> <<>>]}
AllPass == [v \in ValidatorNames |-> [errors |-> <<>>, warnings |-> <<>>]]

\* no extraction has been requested
IdleExtraction ==
    /\ stage = "idle"
    /\ doc_text = <<>>
    /\ doc_coordinates = None
    /\ record = EmptyMetadata
    /\ validation = NoValidation
    /\ validator_results = AllPass
    /\ service_validation = NoServiceValidation

RuleLists == {"MANDAT", "BORDEREAU", "EXERCICE", "AMOUNT", "BENEFICIAIRE"}
\* PatternMatcher.__init__: the rule list of each name
Rules(name) ==
    CASE name = "MANDAT" -> MANDAT_PATTERNS
      [] name = "BORDEREAU" -> BORDEREAU_PATTERNS
      [] name = "EXERCICE" -> EXERCICE_PATTERNS
      [] name = "AMOUNT" -> AMOUNT_PATTERNS
      [] name = "BENEFICIAIRE" -> BENEFICIAIRE_PATTERNS

MaxCalls == 2

NoBest == [done |-> FALSE, value |-> None]
NoAmount == [done |-> FALSE, value |-> None]
NoAmounts == [done |-> FALSE, records |-> <<>>]

IdlePatterns ==
    /\ subject = <<>>
    /\ rules = "MANDAT"
    /\ found = <<>>
    /\ best = NoBest
    /\ amount_value = NoAmount
    /\ amount_records = NoAmounts

\* the order of the blocks of OCRFactory._initialize_engines_sync
AdapterOrder == <<"paddleocr", "easyocr", "kraken">>
MaxInitCalls == 3

\* what the setup inside initialize() meets: the constructor or the model
\* load raises, or (Kraken) the model file is absent and its download fails
SetupOutcomes(a) == {"ok", "raises"} \cup (IF a = "kraken" THEN {"download_failed"} ELSE {})

\* initialize() of an adapter: the value it returns and is_initialized after it
initialize(available, setup, was_initialized) ==
    IF ~available THEN [returns |-> FALSE, is_initialized |-> was_initialized]
    ELSE IF setup = "ok" THEN [returns |-> TRUE, is_initialized |-> TRUE]
    ELSE [returns |-> FALSE, is_initialized |-> was_initialized]

IdleAdapters ==
    /\ lib_available = [a \in EngineNames |-> FALSE]
    /\ adapter_made = {}
    /\ is_initialized = [a \in EngineNames |-> FALSE]
    /\ factory_engines = {}
    /\ init_pc = 0
    /\ init_returns = [a \in EngineNames |-> <<>>]

MaxRequests == 3
\* the startup hook of app/main.py and the request handlers that call
\* get_ocr_factory() (a def dependency runs in the thread pool)
Requests == 1..MaxRequests
StartupHook == 0
Callers == {StartupHook} \cup Requests

IdleSingleton ==
    /\ lifespan = TRUE
    /\ instance = 0
    /\ constructions = 0
    /\ caller_pc = [c \in Callers |-> "idle"]
    /\ caller_made = [c \in Callers |-> 0]
    /\ caller_got = [c \in Callers |-> 0]
    /\ initialize_runs = [a \in EngineNames |-> 0]

\* PaddleOCRService, EasyOCRService and KrakenOCRService.extract_text under
\* OCRFactory.extract_with_fallback. A registered adapter is initialised, so
\* the RuntimeError of the first lines of extract_text is not raised; what
\* the library call does is inside the adapter's try.
IdleRecognition == rec_raised = <<>>

\* CacheService without Redis (use_redis False)
CacheKeys == {"ocr_result:a", "document:b"}
CacheValues == {"v1", "v2"}
\* the ttl argument: None, or a number of seconds
TtlArgs == {None, Some(0), Some(2)}
\* the pattern argument of clear: None, or a pattern; fnmatch is case
\* sensitive, '*' stands for any run of characters
ClearPatterns == {None, Some(<<"o", "c", "r", "_", "r", "e", "s", "u", "l", "t", ":", "*">>)}
MaxClock == 3

NoEntry == [present |-> FALSE, value |-> "", expires_at |-> <<>>]
NoSet == [valid |-> FALSE, value |-> "", at |-> 0, ttl |-> None]
NoGet == [done |-> FALSE, key |-> "", value |-> None, at |-> 0, removed |-> FALSE]

IdleCache ==
    /\ utcnow = 0
    /\ memory_cache = [k \in CacheKeys |-> NoEntry]
    /\ cache_set = [k \in CacheKeys |-> NoSet]
    /\ cache_got = NoGet

\* datetime.isoformat() of the instant t seconds after 2024-01-01T00:00:00,
\* within that day (microsecond 0, so no fraction is written)
datetime_isoformat(t) ==
    <<"2", "0", "2", "4", "-", "0", "1", "-", "0", "1", "T">> \o Pad(IntToStr(t \div 3600), 2) \o <<":">> \o Pad(IntToStr((t \div 60) % 60), 2)
        \o <<":">> \o Pad(IntToStr(t % 60), 2)
\* datetime.fromisoformat(s) for such a string, back in seconds
datetime_fromisoformat(s) ==
    ToInt(SubSeq(s, 12, 13)) * 3600 + ToInt(SubSeq(s, 15, 16)) * 60 + ToInt(SubSeq(s, 18, 19))

\* line 134: ttl or settings.cache_ttl
EffectiveTtl(ttl) == IF ttl.some /\ ttl.val # 0 THEN ttl.val ELSE cache_ttl

\* fnmatch.fnmatch(k, pattern) for a pattern that is a prefix followed by '*'
FnMatch(k, pattern) ==
    LET prefix == SubSeq(pattern, 1, Len(pattern) - 1)
    IN Len(k) >= Len(prefix) /\ SubSeq(k, 1, Len(prefix)) = prefix

\* a key of the model as a str
KeyText(k) == IF k = "ocr_result:a" THEN <<"o", "c", "r", "_", "r", "e", "s", "u", "l", "t", ":", "a">> ELSE <<"d", "o", "c", "u", "m", "e", "n", "t", ":", "b">>

\* core/metrics.py: the wrapper track_request puts around a handler
MaxTracked == 3
TrackedCalls == 1..MaxTracked
StatusLabels == {"success", "error"}

IdleMetrics ==
    /\ ACTIVE_REQUESTS = 0
    /\ REQUEST_COUNT = [s \in StatusLabels |-> 0]
    /\ handler_pc = [r \in TrackedCalls |-> "idle"]
    /\ wrapper_error = [r \in TrackedCalls |-> "None"]

\* lines 55-59, the finally block, for status the local variable (None when
\* no branch has assigned it): line 57 reads it and raises UnboundLocalError
\* when it is unassigned, before line 59 is reached
Finally(status) ==
    IF status.some
    THEN [REQUEST_COUNT |-> [REQUEST_COUNT EXCEPT ![status.val] = @ + 1],
          ACTIVE_REQUESTS |-> ACTIVE_REQUESTS - 1,
          error |-> "None"]
    ELSE [REQUEST_COUNT |-> REQUEST_COUNT,
          ACTIVE_REQUESTS |-> ACTIVE_REQUESTS,
          error |-> "UnboundLocalError"]

\* the wrapper leaves through its finally block
Leave(r, status, to) ==
    /\ handler_pc[r] = "awaiting"
    /\ REQUEST_COUNT' = Finally(status).REQUEST_COUNT
    /\ ACTIVE_REQUESTS' = Finally(status).ACTIVE_REQUESTS
    /\ wrapper_error' = [wrapper_error EXCEPT ![r] = Finally(status).error]
    /\ handler_pc' = [handler_pc EXCEPT ![r] = to]
    /\ UNCHANGED <<orchestrator, extraction, patterns, adapters, singleton, recognition, cache, documents>>

\* DocumentService over its storage directory
MaxFiles == 3
FileSlots == 1..MaxFiles
Contents == {"a", "b", "big"}
\* len(file_content)
ContentLength(c) == IF c = "big" THEN max_file_size + 1 ELSE 1
\* hashlib.sha256(content).hexdigest()[:16], taken as distinct for distinct
\* contents
DocId(c) == "id_" \o c
DocIds == {DocId(c) : c \in Contents}
OriginalNames == {<<"m", "a", "n", "d", "a", "t", ".", "p", "d", "f">>, <<"S", "C", "A", "N", ".", "P", "N", "G">>, <<"r", "u", "n", ".", "e", "x", "e">>, <<>>}
ALLOWED_EXTENSIONS ==
    {<<".", "p", "n", "g">>, <<".", "j", "p", "g">>, <<".", "j", "p", "e", "g">>, <<".", "t", "i", "f", "f">>, <<".", "t", "i", "f">>, <<".", "b", "m", "p">>, <<".", "w", "e", "b", "p">>, <<".", "p", "d", "f">>}

NoFile == "absent"
NoDocCall == [op |-> "none", doc_id |-> "", found |-> FALSE, returned |-> FALSE]

IdleDocuments ==
    /\ files = [f \in FileSlots |-> NoFile]
    /\ deleted = {}
    /\ doc_call = NoDocCall

\* Path(filename).suffix.lower()
get_file_extension(filename) ==
    IF filename = <<>> THEN <<>>
    ELSE LET dots == {i \in 2..Len(filename) : filename[i] = "."}
         IN IF dots = {} THEN <<>> ELSE ToLower(SubSeq(filename, Max(dots), Len(filename)))

\* file_utils.is_allowed_file
is_allowed_file(filename) ==
    IF filename = <<>> THEN FALSE ELSE get_file_extension(filename) \in ALLOWED_EXTENSIONS

\* the files get_document(doc_id) can return: those whose content has the id
Matching(doc_id) == {f \in FileSlots : files[f] # NoFile /\ DocId(files[f]) = doc_id}

\* no call of extract_with_fallback has started
NoCallYet ==
    /\ preferred_engine = "auto"
    /\ enable_fallback = TRUE
    /\ fallback_engines = NoneList
    /\ caller_list = NoneList
    /\ engine_order = <<>>
    /\ idx = 0
    /\ engines_results = <<>>
    /\ pc = "idle"
    /\ path = "none"
    /\ result = NoResult
    /\ response = NoResponse
    /\ invoked = <<>>
    /\ inflight = 0
    /\ last_output = NoOutput

\* the orchestrator while another component is exercised
IdleOrchestrator ==
    /\ engines = {}
    /\ fallback_order = DefaultFallbackOrder
    /\ NoCallYet

Init ==
    /\ engines \in Registries
    /\ fallback_order \in FallbackOrders
    /\ NoCallYet
    /\ IdleExtraction /\ IdlePatterns /\ IdleAdapters /\ IdleSingleton /\ IdleRecognition
    /\ IdleCache /\ IdleMetrics /\ IdleDocuments

\* a return statement of extract_with_fallback and the caller's continuation
\* (the caller resumes in the same step and builds the response)
Return(p, text, confidence, hist, fl) ==
    /\ pc' = "done"
    /\ path' = p
    /\ result' = [text |-> text, confidence |-> confidence]
    /\ response' = Response(hist, confidence)
    /\ idx' = idx
    /\ invoked' = invoked
    /\ inflight' = fl

\* an exception leaving extract_with_fallback
Propagate(fl) ==
    /\ pc' = "raised"
    /\ path' = "error"
    /\ idx' = idx
    /\ invoked' = invoked
    /\ inflight' = fl
    /\ UNCHANGED <<result, response>>

\* await engine.extract_text(image): the coroutine suspends
Await(kind, name, i, fl) ==
    /\ pc' = kind
    /\ idx' = i
    /\ invoked' = Append(invoked, name)
    /\ inflight' = fl + 1
    /\ UNCHANGED <<path, result, response>>

\* lines 132-138: self.engines[engine_name] (a KeyError here is outside the try)
StartAttempt(i, order, fl) ==
    IF LoopEngine(order, i) \in engines
    THEN Await("awaiting", LoopEngine(order, i), i, fl)
    ELSE Propagate(fl)

\* lines 173-181: best result, second await of the best engine or the empty return
Exhaust(hist, fl) ==
    IF ShouldReextract(hist)
    THEN IF hist[BestIndex(hist)].engine \in engines
         THEN Await("reawait", hist[BestIndex(hist)].engine, idx, fl)
         ELSE Propagate(fl)
    ELSE Return("exhausted", <<>>, 0, hist, fl)

\* after attempt idx was recorded and not accepted
Continue(hist, fl) ==
    IF LoopContinues(enable_fallback, idx, engine_order)
    THEN StartAttempt(idx + 1, engine_order, fl)
    ELSE Exhaust(hist, fl)

\* lines 99-138: the call, order resolution, filtering, the empty-order
\* return, and the first await
Call ==
    /\ pc = "idle"
    /\ \E pref \in PreferredValues, enable \in BOOLEAN, fe \in FallbackArgs :
         LET order == FilterAvailable(ResolveOrder(pref, enable, fe, engines, fallback_order), engines)
             lists == ResolveLists(pref, enable, fe, engines, fallback_order)
         IN /\ preferred_engine' = pref
            /\ enable_fallback' = enable
            /\ fallback_engines' = [fe EXCEPT !.list = lists.arg]
            /\ caller_list' = fe
            /\ fallback_order' = lists.cfg
            /\ engine_order' = order
            /\ engines_results' = <<>>
            /\ IF order = <<>>
               THEN Return("empty", <<>>, 0, <<>>, inflight)
               ELSE StartAttempt(1, order, inflight)
    /\ UNCHANGED <<engines, last_output>>
    /\ UNCHANGED <<extraction, patterns, adapters, singleton, recognition, cache, metrics, documents>>

\* lines 138-154, 169-181: extract_text returned inside the loop
BackendReturns ==
    /\ pc = "awaiting"
    /\ \E text \in Texts, confidence \in ConfLevels :
         LET hist == Append(engines_results, SuccessResult(LoopEngine(engine_order, idx), confidence))
         IN /\ engines_results' = hist
            /\ last_output' = [raised |-> FALSE, text |-> text, confidence |-> confidence]
            /\ IF Accepted(text, confidence)
               THEN Return("accepted", text, confidence, hist, inflight - 1)
               ELSE Continue(hist, inflight - 1)
    /\ UNCHANGED <<shared, args, engine_order>>
    /\ UNCHANGED <<extraction, patterns, adapters, singleton, recognition, cache, metrics, documents>>

\* lines 156-181: extract_text raised inside the loop
BackendRaises ==
    /\ pc = "awaiting"
    /\ \E msg \in ErrorMessages :
         LET hist == Append(engines_results, FailureResult(LoopEngine(engine_order, idx), msg))
         IN /\ engines_results' = hist
            /\ last_output' = [raised |-> TRUE, text |-> <<>>, confidence |-> 0]
            /\ Continue(hist, inflight - 1)
    /\ UNCHANGED <<shared, args, engine_order>>
    /\ UNCHANGED <<extraction, patterns, adapters, singleton, recognition, cache, metrics, documents>>

\* lines 178-179: the second extract_text of the best engine returned
ReextractReturns ==
    /\ pc = "reawait"
    /\ \E text \in Texts, confidence \in ConfLevels :
         /\ last_output' = [raised |-> FALSE, text |-> text, confidence |-> confidence]
         /\ Return("reextracted", text, confidence, engines_results, inflight - 1)
    /\ UNCHANGED <<shared, args, engine_order, engines_results>>
    /\ UNCHANGED <<extraction, patterns, adapters, singleton, recognition, cache, metrics, documents>>

\* line 178 is outside any try: the second extract_text raised
ReextractRaises ==
    /\ pc = "reawait"
    /\ last_output' = [raised |-> TRUE, text |-> <<>>, confidence |-> 0]
    /\ Propagate(inflight - 1)
    /\ UNCHANGED <<shared, args, engine_order, engines_results>>
    /\ UNCHANGED <<extraction, patterns, adapters, singleton, recognition, cache, metrics, documents>>

Next ==
    \/ Call
    \/ BackendReturns
    \/ BackendRaises
    \/ ReextractReturns
    \/ ReextractRaises

Spec == Init /\ [][Next]_vars

\* ------------------------------------------------------- text extraction
\* the lines a document of the model is made of
MandatLines ==
    {<<>>, <<"M", "D", "/", "2", "4", "1", "2", "0", "3", "4">>, <<"M", "D", "/", "1", "8", "1", "2", "0", "3", "4">>, <<"N", "°", " ", "M", "a", "n", "d", "a", "t", ":", " ", "M", "D", "/", "2", "3", "1", "2", "0", "3", "4">>,
     <<"M", "D", " ", "2", "5", "1", "2", "0", "3", "4", " ", "N", "D", "/", "2", "4", "1", "2", "0", "3", "4">>, <<"M", "D", "/", "9", "9", "1", "2", "0", "3", "4", " ", "M", "D", "/", "2", "4", "1", "2", "0", "3", "4">>}
BordereauLines == {<<>>, <<"B", "O", "R", "/", "2", "4", "0", "2", "7", "5", "6">>, <<"8", "O", "R", "/", "2", "4", "0", "2", "7", "5", "6", " ", "B", "O", "R", "-", "2", "3", "0", "2", "7", "5", "6">>, <<"B", "O", "R", "/", "0", "0", "0", "2", "7", "5", "6">>}
ExerciceLines ==
    {<<>>, <<"E", "x", "e", "r", "c", "i", "c", "e", ":", " ", "2", "0", "2", "4">>, <<"E", "x", "e", "r", "c", "i", "c", "e", ":", " ", "2", "0", "2", "3">>, <<"2", "0", "1", "4">>, <<"G", "B", "/", "2", "0", "2", "4", " ", "e", "n", " ", "2", "0", "2", "5", " ", "E", "x", "e", "r", "c", "i", "c", "e", ":", " ", "2", "0", "3", "1">>}
TailLines ==
    {<<>>, <<"É", "m", "i", "s", " ", "l", "e", " ", "1", "5", " ", "d", "é", "c", "e", "m", "b", "r", "e", " ", "2", "0", "2", "4">>, <<"T", "o", "t", "a", "l", ":", " ", "5", " ", "6", "7", "2", " ", "8", "6", "0", " ", "F", "C", "F", "A">>,
     <<"p", "a", "y", "é", " ", "l", "e", " ", "1", "5", "/", "1", "2", "/", "2", "0", "2", "4", " ", "s", "i", "g", "n", "é", " ", "l", "e", " ", "1", "5", "/", "1", "2", "/", "2", "0", "2", "4">>,
     <<"É", "m", "i", "s", " ", "l", "e", " ", "1", "5", "/", "1", "2", "/", "2", "0", "2", "4", " ", "p", "a", "r", " ", "l", "e", " ", "s", "e", "r", "v", "i", "c", "e", " ", "c", "o", "m", "p", "t", "a", "b", "l", "e", " ", "d", "e", " ", "l", "a", " ", "d", "i", "r", "e", "c", "t", "i", "o", "n", " ", "d", "u", " ", "b", "u", "d", "g", "e", "t", ",", " ", "l", "i", "m", "i", "t", "e", " ", "1", "5", "/", "1", "2", "/", "2", "0", "2", "4">>}

\* sep.join(lines)
RECURSIVE Join(_, _)
Join(lines, sep) ==
    IF lines = <<>> THEN <<>>
    ELSE IF Len(lines) = 1 THEN Head(lines)
    ELSE Head(lines) \o sep \o Join(Tail(lines), sep)

Documents ==
    {<<>>}
    \cup {Join(<<m, b, e, t>>, <<"\n">>) :
            m \in MandatLines, b \in BordereauLines, e \in ExerciceLines, t \in TailLines}

\* coordinate lists: items {text, bbox, confidence}; bbox 0 stands for an
\* absent one, confidence is in hundredths
CoordinateLists ==
    {Some(<<>>),
     Some(<<[text |-> <<"M", "a", "n", "d", "a", "t", " ", "m", "d", "/", "2", "4", "1", "2", "0", "3", "4">>, bbox |-> 1, confidence |-> Some(95)],
            [text |-> <<"M", "D", "/", "2", "4", "1", "2", "0", "3", "4">>, bbox |-> 2, confidence |-> Some(40)],
            [text |-> <<"B", "O", "R", "/", "2", "4", "0", "2", "7", "5", "6", " ", "M", "D", "/", "2", "3", "1", "2", "0", "3", "4">>, bbox |-> 3, confidence |-> None]>>)}

\* the calls of extract_all: every document without coordinates, and the
\* documents of a mandat and a bordereau line with each coordinate list
Inputs ==
    {[text |-> d, coordinates |-> None] : d \in Documents}
    \cup {[text |-> Join(<<m, b>>, <<" ">>), coordinates |-> c] :
            m \in MandatLines, b \in BordereauLines, c \in CoordinateLists}

\* records a caller can hand to the validations without extracting them
SuppliedMandats ==
    {NoDocumentInfo}
    \cup {DocumentInfo("mandat", n, format_mandat_reference(n), c, 0) :
            n \in {<<"2", "4", "1", "2", "0", "3", "4">>}, c \in {85, 90}}
    \cup {DocumentInfo("mandat", n, format_mandat_reference(n), 85, 0) :
            n \in {<<"9", "9", "1", "2", "0", "3", "4">>, <<"2", "4", "x", "2", "0", "3", "4">>}}
SuppliedBordereaux ==
    {NoDocumentInfo}
    \cup {DocumentInfo("bordereau", n, format_bordereau_reference(n), 85, 0) :
            n \in {<<"2", "4", "0", "2", "7", "5", "6">>, <<"2", "4", "0", "2", "7", "5">>}}
SuppliedExercices == {None, Some(<<>>), Some(<<"2", "0", "2", "4">>), Some(<<"2", "0", "2", "3">>), Some(<<"2", "0", "3", "1">>), Some(<<"2", "0", "x", "4">>)}
SuppliedDates ==
    {<<>>,
     <<[value |-> <<"2", "0", "2", "4", "-", "1", "2", "-", "1", "5", "T", "0", "0", ":", "0", "0", ":", "0", "0">>, formatted |-> <<"1", "5", "/", "1", "2", "/", "2", "0", "2", "4">>, type |-> "emission", confidence |-> 80]>>}
SuppliedRecords ==
    {[mandat |-> m, bordereau |-> b, exercice |-> e, dates |-> d, amounts |-> <<>>, beneficiaire |-> None] :
        m \in SuppliedMandats, b \in SuppliedBordereaux, e \in SuppliedExercices, d \in SuppliedDates}

InitExtract ==
    /\ IdleOrchestrator /\ IdlePatterns /\ IdleAdapters /\ IdleSingleton /\ IdleRecognition
    /\ IdleCache /\ IdleMetrics /\ IdleDocuments
    /\ validation = NoValidation
    /\ service_validation = NoServiceValidation
    /\ \/ /\ stage = "input"
          /\ \E input \in Inputs :
               /\ doc_text = input.text
               /\ doc_coordinates = input.coordinates
          /\ record = EmptyMetadata
          /\ validator_results = AllPass
       \/ /\ stage = "supplied"
          /\ doc_text = <<>>
          /\ doc_coordinates = None
          /\ record \in SuppliedRecords
          /\ validator_results \in [ValidatorNames -> ValidatorOutcomes]

\* MetadataExtractor.extract_all(text, coordinates)
ExtractAll ==
    /\ stage = "input"
    /\ record' = extract_all(doc_text, doc_coordinates)
    /\ stage' = "extracted"
    /\ UNCHANGED <<doc_text, doc_coordinates, validation, validator_results, service_validation>>
    /\ UNCHANGED <<orchestrator, patterns, adapters, singleton, recognition, cache, metrics, documents>>

\* MetadataExtractor.validate_extraction(metadata)
ValidateExtraction ==
    /\ stage \in {"extracted", "supplied"}
    /\ validation' = validate_extraction(record)
    /\ stage' = "validated"
    /\ UNCHANGED <<doc_text, doc_coordinates, record, validator_results, service_validation>>
    /\ UNCHANGED <<orchestrator, patterns, adapters, singleton, recognition, cache, metrics, documents>>

\* ValidationService.validate_extraction(metadata), run on the record after
\* the extractor's own validation
ServiceValidate ==
    /\ stage = "validated"
    /\ service_validation' = service_validate_extraction(record, validator_results)
    /\ stage' = "aggregated"
    /\ UNCHANGED <<doc_text, doc_coordinates, record, validation, validator_results>>
    /\ UNCHANGED <<orchestrator, patterns, adapters, singleton, recognition, cache, metrics, documents>>

NextExtract ==
    \/ ExtractAll
    \/ ValidateExtraction
    \/ ServiceValidate

SpecExtract == InitExtract /\ [][NextExtract]_vars

\* ------------------------------------------ pattern matching and amounts
Subjects ==
    {<<>>, <<"5", " ", "6", "7", "2", " ", "8", "6", "0", " ", "F", "C", "F", "A">>, <<"5", ",", "6", "7", "2", ",", "8", "6", "0">>, <<"a", "b", "c">>, <<"5", ".", "6", "7", "2", ".", "8", "6", "0">>, <<"1", "2", ".", "5", "0", " ", "F", "C", "F", "A">>, <<"0", " ", "F", "C", "F", "A">>,
     <<"1", " ", "0", "0", "0", " ", "f", "r", "a", "n", "c", "s", " ", "C", "F", "A">>, <<" ", " ">>, <<"1", ".", "2", ".", "3", ",", "4", " ", "F", " ", "C", "F", "A">>,
     <<"M", "D", "/", "9", "9", "1", "2", "0", "3", "4", " ", "M", "D", "/", "2", "4", "1", "2", "0", "3", "4", " ", "N", "°", " ", "M", "a", "n", "d", "a", "t", ":", " ", "M", "D", "/", "2", "3", "1", "2", "0", "3", "4">>,
     <<"M", "D", " ", "2", "5", "1", "2", "0", "3", "4", " ", "N", "D", "/", "2", "4", "1", "2", "0", "3", "4">>,
     <<"8", "O", "R", "/", "2", "4", "0", "2", "7", "5", "6", " ", "B", "O", "R", "-", "2", "3", "0", "2", "7", "5", "6", " ", "B", "O", "R", "/", "2", "4", "0", "2", "7", "5", "6">>,
     <<"2", "0", "2", "5", " ", "G", "B", "/", "2", "0", "2", "4", " ", "E", "x", "e", "r", "c", "i", "c", "e", ":", " ", "2", "0", "3", "1", " ", "E", "x", "e", "r", "c", "i", "c", "e", " ", "2", "0", "2", "3">>,
     <<"T", "o", "t", "a", "l", ":", " ", ".", ".", " ", "F", "C", "F", "A", " ", "p", "u", "i", "s", " ", "5", " ", "F", "C", "F", "A">>,
     <<"M", "o", "n", "t", "a", "n", "t", ":", " ", "1", " ", "5", "0", "0", " ", "F", "C", "F", "A", " ", "N", "e", "t", ":", " ", "2", ",", "5", "0", "0", ".", "7", "5", " ", "F", "C", "F", "A">>,
     <<"B", "é", "n", "é", "f", "i", "c", "i", "a", "i", "r", "e", ":", " ", "S", "A", "R", "L", " ", "D", "U", "P", "O", "N", "T">>,
     <<"5", " ", "6", "7", "2", " ", "8", "6", "0">>, <<"5", ",", "6", "7", "2", ",", "8", "6", "0", " ", "F", "C", "F", "A">>, <<"5", ".", "6", "7", "2", ".", "8", "6", "0", " ", "F", "C", "F", "A">>, <<"1", "2", " ", "5", "0", "0", " ", "0", "0", "0">>, <<"1", "2", ",", "5", "0", "0", ",", "0", "0", "0">>, <<"1", "2", ".", "5", "0", "0", ".", "0", "0", "0">>}

InitPatterns ==
    /\ IdleOrchestrator /\ IdleExtraction /\ IdleAdapters /\ IdleSingleton /\ IdleRecognition
    /\ IdleCache /\ IdleMetrics /\ IdleDocuments
    /\ subject \in Subjects
    /\ rules \in RuleLists
    /\ found = <<>>
    /\ best = NoBest
    /\ amount_value = NoAmount
    /\ amount_records = NoAmounts

\* PatternMatcher.find_all_matches(subject, rules)
FindAllMatches ==
    /\ Len(found) < MaxCalls
    /\ found' = Append(found, find_all_matches(subject, Rules(rules)))
    /\ UNCHANGED <<subject, rules, best, amount_value, amount_records>>
    /\ UNCHANGED <<orchestrator, extraction, adapters, singleton, recognition, cache, metrics, documents>>

\* PatternMatcher.find_best_match(subject, rules)
FindBestMatch ==
    /\ ~best.done
    /\ best' = [done |-> TRUE, value |-> find_best_match(subject, Rules(rules))]
    /\ UNCHANGED <<subject, rules, found, amount_value, amount_records>>
    /\ UNCHANGED <<orchestrator, extraction, adapters, singleton, recognition, cache, metrics, documents>>

\* normalize_amount(subject)
NormalizeAmount ==
    /\ ~amount_value.done
    /\ amount_value' = [done |-> TRUE, value |-> normalize_amount(subject)]
    /\ UNCHANGED <<subject, rules, found, best, amount_records>>
    /\ UNCHANGED <<orchestrator, extraction, adapters, singleton, recognition, cache, metrics, documents>>

\* MetadataExtractor.extract_amounts(subject)
ExtractAmounts ==
    /\ ~amount_records.done
    /\ amount_records' = [done |-> TRUE, records |-> extract_amounts(subject)]
    /\ UNCHANGED <<subject, rules, found, best, amount_value>>
    /\ UNCHANGED <<orchestrator, extraction, adapters, singleton, recognition, cache, metrics, documents>>

NextPatterns ==
    \/ FindAllMatches
    \/ FindBestMatch
    \/ NormalizeAmount
    \/ ExtractAmounts

SpecPatterns == InitPatterns /\ [][NextPatterns]_vars

\* ------------------------------------------------ adapter initialisation
InitAdapters ==
    /\ IdleOrchestrator /\ IdleExtraction /\ IdlePatterns /\ IdleSingleton /\ IdleRecognition
    /\ IdleCache /\ IdleMetrics /\ IdleDocuments
    /\ lib_available \in [EngineNames -> BOOLEAN]
    /\ adapter_made = {}
    /\ is_initialized = [a \in EngineNames |-> FALSE]
    /\ factory_engines = {}
    /\ init_pc = 0
    /\ init_returns = [a \in EngineNames |-> <<>>]

\* one block of _initialize_engines_sync: a new adapter, its initialize(),
\* and the registration when that returned True. When the constructing
\* thread already runs an event loop, run_until_complete raises before the
\* coroutine starts and the block's except leaves the adapter unregistered.
InitializeEngine ==
    /\ init_pc < Len(AdapterOrder)
    /\ LET a == AdapterOrder[init_pc + 1]
       IN \/ /\ adapter_made' = adapter_made \cup {a}
             /\ UNCHANGED <<is_initialized, init_returns, factory_engines>>
          \/ \E setup \in SetupOutcomes(a) :
               LET r == initialize(lib_available[a], setup, FALSE)
               IN /\ adapter_made' = adapter_made \cup {a}
                  /\ is_initialized' = [is_initialized EXCEPT ![a] = r.is_initialized]
                  /\ init_returns' = [init_returns EXCEPT ![a] = <<r.returns>>]
                  /\ factory_engines' = IF r.returns THEN factory_engines \cup {a} ELSE factory_engines
    /\ init_pc' = init_pc + 1
    /\ UNCHANGED lib_available
    /\ UNCHANGED <<orchestrator, extraction, patterns, singleton, recognition, cache, metrics, documents>>

\* a further initialize() on an adapter that exists
InitializeAgain ==
    /\ \E a \in adapter_made : \E setup \in SetupOutcomes(a) :
         /\ Len(init_returns[a]) < MaxInitCalls
         /\ LET r == initialize(lib_available[a], setup, is_initialized[a])
            IN /\ is_initialized' = [is_initialized EXCEPT ![a] = r.is_initialized]
               /\ init_returns' = [init_returns EXCEPT ![a] = Append(@, r.returns)]
    /\ UNCHANGED <<lib_available, adapter_made, factory_engines, init_pc>>
    /\ UNCHANGED <<orchestrator, extraction, patterns, singleton, recognition, cache, metrics, documents>>

NextAdapters ==
    \/ InitializeEngine
    \/ InitializeAgain

SpecAdapters == InitAdapters /\ [][NextAdapters]_vars

\* ------------------------------------------------- the factory singleton
InitSingleton ==
    /\ IdleOrchestrator /\ IdleExtraction /\ IdlePatterns /\ IdleAdapters /\ IdleRecognition
    /\ IdleCache /\ IdleMetrics /\ IdleDocuments
    /\ lifespan \in BOOLEAN
    /\ instance = 0
    /\ constructions = 0
    /\ caller_pc = [c \in Callers |-> "idle"]
    /\ caller_made = [c \in Callers |-> 0]
    /\ caller_got = [c \in Callers |-> 0]
    /\ initialize_runs = [a \in EngineNames |-> 0]

\* when a caller can start: the hook only under the lifespan protocol, and
\* then the requests only once the hook has finished
MayStart(c) ==
    IF c = StartupHook THEN lifespan
    ELSE lifespan => caller_pc[StartupHook] = "done"

\* line 191: if _ocr_factory_instance is None
Check(c) ==
    /\ caller_pc[c] = "idle"
    /\ MayStart(c)
    /\ caller_pc' = [caller_pc EXCEPT ![c] = IF instance = 0 THEN "construct" ELSE "return"]
    /\ UNCHANGED <<lifespan, instance, constructions, caller_made, caller_got, initialize_runs>>
    /\ UNCHANGED <<orchestrator, extraction, patterns, adapters, recognition, cache, metrics, documents>>

\* line 192, right side: OCRFactory(), whose __init__ runs the initialize()
\* of every backend; in the startup hook, which runs on the server's event
\* loop, run_until_complete raises instead and no initialize() runs
Construct(c) ==
    /\ caller_pc[c] = "construct"
    /\ constructions' = constructions + 1
    /\ caller_made' = [caller_made EXCEPT ![c] = constructions + 1]
    /\ initialize_runs' = IF c = StartupHook THEN initialize_runs
                          ELSE [a \in EngineNames |-> initialize_runs[a] + 1]
    /\ caller_pc' = [caller_pc EXCEPT ![c] = "store"]
    /\ UNCHANGED <<lifespan, instance, caller_got>>
    /\ UNCHANGED <<orchestrator, extraction, patterns, adapters, recognition, cache, metrics, documents>>

\* line 192, left side: the assignment to the global
Store(c) ==
    /\ caller_pc[c] = "store"
    /\ instance' = caller_made[c]
    /\ caller_pc' = [caller_pc EXCEPT ![c] = "return"]
    /\ UNCHANGED <<lifespan, constructions, caller_made, caller_got, initialize_runs>>
    /\ UNCHANGED <<orchestrator, extraction, patterns, adapters, recognition, cache, metrics, documents>>

\* line 193: return _ocr_factory_instance
ReturnInstance(c) ==
    /\ caller_pc[c] = "return"
    /\ caller_got' = [caller_got EXCEPT ![c] = instance]
    /\ caller_pc' = [caller_pc EXCEPT ![c] = "done"]
    /\ UNCHANGED <<lifespan, instance, constructions, caller_made, initialize_runs>>
    /\ UNCHANGED <<orchestrator, extraction, patterns, adapters, recognition, cache, metrics, documents>>

NextSingleton ==
    \/ \E c \in Callers : Check(c)
    \/ \E c \in Callers : Construct(c)
    \/ \E c \in Callers : Store(c)
    \/ \E c \in Callers : ReturnInstance(c)

SpecSingleton == InitSingleton /\ [][NextSingleton]_vars

\* ---------------------------------- recognition by the concrete adapters
\* the adapter's library call completed: extract_text returns the joined
\* text and the mean confidence, and the loop goes on from line 139
AdapterReturns ==
    /\ pc = "awaiting"
    /\ \E t \in Texts, confidence \in ConfLevels :
         LET hist == Append(engines_results, SuccessResult(LoopEngine(engine_order, idx), confidence))
         IN /\ engines_results' = hist
            /\ last_output' = [raised |-> FALSE, text |-> t, confidence |-> confidence]
            /\ IF Accepted(t, confidence)
               THEN Return("accepted", t, confidence, hist, inflight - 1)
               ELSE Continue(hist, inflight - 1)
    /\ rec_raised' = Append(rec_raised, FALSE)
    /\ UNCHANGED <<shared, args, engine_order>>
    /\ UNCHANGED <<extraction, patterns, adapters, singleton, cache, metrics, documents>>

\* the adapter's library call raised: the adapter's except returns ("", 0.0)
\* and the factory sees a normal return
AdapterSwallows ==
    /\ pc = "awaiting"
    /\ LET hist == Append(engines_results, SuccessResult(LoopEngine(engine_order, idx), 0))
       IN /\ engines_results' = hist
          /\ last_output' = [raised |-> FALSE, text |-> <<>>, confidence |-> 0]
          /\ IF Accepted(<<>>, 0)
             THEN Return("accepted", <<>>, 0, hist, inflight - 1)
             ELSE Continue(hist, inflight - 1)
    /\ rec_raised' = Append(rec_raised, TRUE)
    /\ UNCHANGED <<shared, args, engine_order>>
    /\ UNCHANGED <<extraction, patterns, adapters, singleton, cache, metrics, documents>>

\* lines 178-179 with a concrete adapter: the second extract_text returned
ReextractAdapterReturns ==
    /\ pc = "reawait"
    /\ \E t \in Texts, confidence \in ConfLevels :
         /\ last_output' = [raised |-> FALSE, text |-> t, confidence |-> confidence]
         /\ Return("reextracted", t, confidence, engines_results, inflight - 1)
    /\ rec_raised' = Append(rec_raised, FALSE)
    /\ UNCHANGED <<shared, args, engine_order, engines_results>>
    /\ UNCHANGED <<extraction, patterns, adapters, singleton, cache, metrics, documents>>

\* lines 178-179 with a concrete adapter: the library call of the second
\* extract_text raised and the adapter returned ("", 0.0)
ReextractAdapterSwallows ==
    /\ pc = "reawait"
    /\ last_output' = [raised |-> FALSE, text |-> <<>>, confidence |-> 0]
    /\ Return("reextracted", <<>>, 0, engines_results, inflight - 1)
    /\ rec_raised' = Append(rec_raised, TRUE)
    /\ UNCHANGED <<shared, args, engine_order, engines_results>>
    /\ UNCHANGED <<extraction, patterns, adapters, singleton, cache, metrics, documents>>

NextRecognition ==
    \/ Call
    \/ AdapterReturns
    \/ AdapterSwallows
    \/ ReextractAdapterReturns
    \/ ReextractAdapterSwallows

SpecRecognition == Init /\ [][NextRecognition]_vars

\* --------------------------------------------------- the in-memory cache
InitCache ==
    /\ IdleOrchestrator /\ IdleExtraction /\ IdlePatterns /\ IdleAdapters /\ IdleSingleton /\ IdleRecognition
    /\ IdleCache /\ IdleMetrics /\ IdleDocuments

\* CacheService.set(key, value, ttl) lines 116-157, in-memory branch
CacheSet ==
    /\ \E k \in CacheKeys, v \in CacheValues, ttl \in TtlArgs :
         /\ memory_cache' = [memory_cache EXCEPT ![k] =
                                [present |-> TRUE, value |-> v,
                                 expires_at |-> datetime_isoformat(utcnow + EffectiveTtl(ttl))]]
         /\ cache_set' = [cache_set EXCEPT ![k] = [valid |-> TRUE, value |-> v, at |-> utcnow, ttl |-> ttl]]
    /\ cache_got' = NoGet
    /\ UNCHANGED utcnow
    /\ UNCHANGED <<orchestrator, extraction, patterns, adapters, singleton, recognition, metrics, documents>>

\* CacheService.get(key) lines 73-114, in-memory branch
CacheGet ==
    /\ \E k \in CacheKeys :
         LET cache_entry == memory_cache[k]
             expired == cache_entry.present /\ utcnow > datetime_fromisoformat(cache_entry.expires_at)
         IN /\ memory_cache' = IF expired THEN [memory_cache EXCEPT ![k] = NoEntry] ELSE memory_cache
            /\ cache_got' = [done |-> TRUE, key |-> k,
                             value |-> IF cache_entry.present /\ ~expired THEN Some(cache_entry.value) ELSE None,
                             at |-> utcnow,
                             removed |-> ~cache_entry.present \/ expired]
    /\ UNCHANGED <<utcnow, cache_set>>
    /\ UNCHANGED <<orchestrator, extraction, patterns, adapters, singleton, recognition, metrics, documents>>

\* CacheService.delete(key) lines 159-183, in-memory branch
CacheDelete ==
    /\ \E k \in CacheKeys :
         /\ memory_cache' = [memory_cache EXCEPT ![k] = NoEntry]
         /\ cache_set' = [cache_set EXCEPT ![k] = NoSet]
    /\ cache_got' = NoGet
    /\ UNCHANGED utcnow
    /\ UNCHANGED <<orchestrator, extraction, patterns, adapters, singleton, recognition, metrics, documents>>

\* CacheService.clear(pattern) lines 185-227, in-memory branch
CacheClear ==
    /\ \E pattern \in ClearPatterns :
         LET keys_to_delete == {k \in CacheKeys : pattern.some => FnMatch(KeyText(k), pattern.val)}
         IN /\ memory_cache' = [k \in CacheKeys |-> IF k \in keys_to_delete THEN NoEntry ELSE memory_cache[k]]
            /\ cache_set' = [k \in CacheKeys |-> IF k \in keys_to_delete THEN NoSet ELSE cache_set[k]]
    /\ cache_got' = NoGet
    /\ UNCHANGED utcnow
    /\ UNCHANGED <<orchestrator, extraction, patterns, adapters, singleton, recognition, metrics, documents>>

\* a second passes
ClockTick ==
    /\ utcnow < MaxClock
    /\ utcnow' = utcnow + 1
    /\ UNCHANGED <<memory_cache, cache_set, cache_got>>
    /\ UNCHANGED <<orchestrator, extraction, patterns, adapters, singleton, recognition, metrics, documents>>

NextCache ==
    \/ CacheSet
    \/ CacheGet
    \/ CacheDelete
    \/ CacheClear
    \/ ClockTick

SpecCache == InitCache /\ [][NextCache]_vars

\* ------------------------------------------------------ request tracking
InitMetrics ==
    /\ IdleOrchestrator /\ IdleExtraction /\ IdlePatterns /\ IdleAdapters /\ IdleSingleton /\ IdleRecognition
    /\ IdleCache /\ IdleMetrics /\ IdleDocuments

\* lines 45-49: the gauge is incremented and the handler awaited
WrapperEnters(r) ==
    /\ handler_pc[r] = "idle"
    /\ ACTIVE_REQUESTS' = ACTIVE_REQUESTS + 1
    /\ handler_pc' = [handler_pc EXCEPT ![r] = "awaiting"]
    /\ UNCHANGED <<REQUEST_COUNT, wrapper_error>>
    /\ UNCHANGED <<orchestrator, extraction, patterns, adapters, singleton, recognition, cache, documents>>

\* lines 49-51: the handler returned
HandlerReturns(r) == Leave(r, Some("success"), "returned")

\* lines 52-54: the handler raised an Exception
HandlerRaises(r) == Leave(r, Some("error"), "raised")

\* the awaiting task was cancelled: asyncio.CancelledError derives from
\* BaseException, so neither line 50 nor line 53 runs
HandlerCancelled(r) == Leave(r, None, "cancelled")

NextMetrics ==
    \E r \in TrackedCalls :
        \/ WrapperEnters(r)
        \/ HandlerReturns(r)
        \/ HandlerRaises(r)
        \/ HandlerCancelled(r)

SpecMetrics == InitMetrics /\ [][NextMetrics]_vars

\* ---------------------------------------------------- the document store
InitDocuments ==
    /\ IdleOrchestrator /\ IdleExtraction /\ IdlePatterns /\ IdleAdapters /\ IdleSingleton /\ IdleRecognition
    /\ IdleCache /\ IdleMetrics /\ IdleDocuments

\* DocumentService.save_document lines 48-111: ValueError for a name that
\* is not allowed or a content that is too large; else the content is
\* written under a name no file of the directory has
SaveDocument ==
    /\ \E file_content \in Contents, original_filename \in OriginalNames :
         IF ~is_allowed_file(original_filename) \/ ContentLength(file_content) > max_file_size
         THEN /\ doc_call' = [op |-> "save_document", doc_id |-> DocId(file_content),
                              found |-> FALSE, returned |-> FALSE]
              /\ UNCHANGED <<files, deleted>>
         ELSE /\ \E f \in FileSlots : files[f] = NoFile
              /\ LET unique_filename == Min({f \in FileSlots : files[f] = NoFile})
                 IN files' = [files EXCEPT ![unique_filename] = file_content]
              /\ deleted' = deleted \ {DocId(file_content)}
              /\ doc_call' = [op |-> "save_document", doc_id |-> DocId(file_content),
                              found |-> TRUE, returned |-> TRUE]
    /\ UNCHANGED <<orchestrator, extraction, patterns, adapters, singleton, recognition, cache, metrics>>

\* DocumentService.get_document lines 113-143
GetDocument ==
    /\ \E doc_id \in DocIds :
         doc_call' = [op |-> "get_document", doc_id |-> doc_id,
                      found |-> Matching(doc_id) # {}, returned |-> Matching(doc_id) # {}]
    /\ UNCHANGED <<files, deleted>>
    /\ UNCHANGED <<orchestrator, extraction, patterns, adapters, singleton, recognition, cache, metrics>>

\* DocumentService.get_document_content lines 145-171
GetDocumentContent ==
    /\ \E doc_id \in DocIds :
         doc_call' = [op |-> "get_document_content", doc_id |-> doc_id,
                      found |-> Matching(doc_id) # {}, returned |-> Matching(doc_id) # {}]
    /\ UNCHANGED <<files, deleted>>
    /\ UNCHANGED <<orchestrator, extraction, patterns, adapters, singleton, recognition, cache, metrics>>

\* DocumentService.duplicate_check lines 341-360
DuplicateCheck ==
    /\ \E file_content \in Contents :
         doc_call' = [op |-> "duplicate_check", doc_id |-> DocId(file_content),
                      found |-> Matching(DocId(file_content)) # {},
                      returned |-> Matching(DocId(file_content)) # {}]
    /\ UNCHANGED <<files, deleted>>
    /\ UNCHANGED <<orchestrator, extraction, patterns, adapters, singleton, recognition, cache, metrics>>

\* DocumentService.delete_document lines 173-201: the file get_document
\* found is unlinked; an OSError of unlink is caught and False returned
DeleteDocument ==
    /\ \E doc_id \in DocIds :
         IF Matching(doc_id) = {}
         THEN /\ doc_call' = [op |-> "delete_document", doc_id |-> doc_id, found |-> FALSE, returned |-> FALSE]
              /\ UNCHANGED <<files, deleted>>
         ELSE \E file_path \in Matching(doc_id), unlinked \in BOOLEAN :
                /\ files' = IF unlinked THEN [files EXCEPT ![file_path] = NoFile] ELSE files
                /\ deleted' = IF unlinked THEN deleted \cup {doc_id} ELSE deleted
                /\ doc_call' = [op |-> "delete_document", doc_id |-> doc_id, found |-> TRUE, returned |-> unlinked]
    /\ UNCHANGED <<orchestrator, extraction, patterns, adapters, singleton, recognition, cache, metrics>>

NextDocuments ==
    \/ SaveDocument
    \/ GetDocument
    \/ GetDocumentContent
    \/ DuplicateCheck
    \/ DeleteDocument

SpecDocuments == InitDocuments /\ [][NextDocuments]_vars

\* ---------------------------------------------------------------- claims
\* vocabulary of the claims, defined apart from the operators of the model
CallStarted == pc # "idle"
LoopOver == pc \in {"reawait", "done", "raised"} /\ path \notin {"accepted", "empty"}
NonBlank(t) == \E i \in 1..Len(t) : t[i] \notin Whitespace
AcceptableOutput(o) == ~o.raised /\ o.confidence >= confidence_threshold /\ NonBlank(o.text)
NamesOf(seq) == {seq[i] : i \in 1..Len(seq)}
ReextractDone == IF path = "reextracted" \/ (pc = "raised" /\ Len(invoked) > Len(engines_results)) THEN 1 ELSE 0
\* number of extract_text calls the loop has started
LoopAttempts == Len(invoked) - (IF pc = "reawait" THEN 1 ELSE ReextractDone)

RECURSIVE Keep(_, _)
Keep(lst, S) ==
    IF lst = <<>> THEN <<>>
    ELSE IF Head(lst) \in S THEN <<Head(lst)>> \o Keep(Tail(lst), S) ELSE Keep(Tail(lst), S)

\* C1: when no name of the resolved order is registered -- in particular
\* when the registry is empty -- the call returns ("", 0.0, []) without
\* raising and without invoking any backend.
C1_EmptyOrderReturnsEmpty ==
    (CallStarted /\ Keep(ResolveOrder(preferred_engine, enable_fallback, fallback_engines, engines, fallback_order), engines) = <<>>)
        => /\ pc = "done"
           /\ result = [text |-> <<>>, confidence |-> 0]
           /\ engines_results = <<>>
           /\ invoked = <<>>
           /\ inflight = 0
C1_Witness ==
    /\ pc = "done" /\ path = "empty"
    /\ engines = {}
    /\ preferred_engine = "kraken"
    /\ fallback_engines.given /\ Len(fallback_engines.list) = 2

\* C2 (as claimed): with fallback enabled the history never holds more
\* attempts than there are registered backends, and nothing is attempted
\* after an attempt with confidence >= threshold and non-blank text.
C2_AtMostNAttempts ==
    (CallStarted /\ enable_fallback)
        => /\ Len(engines_results) <= Cardinality(engines)
           /\ (engines_results # <<>> /\ AcceptableOutput(last_output)) => pc = "done"

\* C3 (as claimed): with fallback disabled and at least one registered
\* backend, a finished call has exactly one attempt in its history.
C3_ExactlyOneWhenAnyBackend ==
    (pc \in {"done", "raised"} /\ ~enable_fallback /\ engines # {})
        => Len(engines_results) = 1

\* C3 (amended): with fallback disabled and a non-empty resolved order, the
\* loop makes exactly one attempt whatever its outcome: once the first
\* extract_text has completed the history has one entry and stays so.
C3_ExactlyOneWhenOrderNonEmpty ==
    (CallStarted /\ ~enable_fallback /\ engine_order # <<>>)
        => /\ pc = "awaiting" => (engines_results = <<>> /\ Len(invoked) = 1)
           /\ pc # "awaiting" => (Len(engines_results) = 1 /\ LoopAttempts = 1)
C3_Witness ==
    /\ pc = "done" /\ ~enable_fallback
    /\ preferred_engine = "auto"
    /\ Len(engine_order) = 3
    /\ Len(engines_results) = 1
    /\ ~engines_results[1].success

\* C4: an attempt of the loop ends the call with its own text and confidence
\* and the history ending in it if and only if its confidence is >= the
\* threshold (equality included) and its stripped text is non-empty.
C4_AcceptanceRule ==
    /\ path = "accepted"
        => /\ pc = "done"
           /\ AcceptableOutput(last_output)
           /\ result = [text |-> last_output.text, confidence |-> last_output.confidence]
           /\ engines_results # <<>>
           /\ engines_results[Len(engines_results)] =
                 [engine |-> invoked[Len(invoked)], success |-> TRUE,
                  confidence |-> last_output.confidence, error |-> "None"]
           /\ Len(invoked) = Len(engines_results)
    /\ (engines_results # <<>> /\ ReextractDone = 0 /\ AcceptableOutput(last_output))
        => path = "accepted"
C4_Witness ==
    /\ path = "accepted"
    /\ result.confidence = confidence_threshold
    /\ Len(engines_results) = 2
    /\ engines_results[1].confidence = 7

\* C5 (as claimed): no exception of a backend leaves extract_with_fallback.
C5_NeverPropagates == pc # "raised"

RECURSIVE ArgMaxUpTo(_, _)
ArgMaxUpTo(h, n) ==
    IF n <= 1 THEN n
    ELSE LET b == ArgMaxUpTo(h, n - 1)
         IN IF h[n].confidence > h[b].confidence THEN n ELSE b

C6_State ==
    LoopOver =>
        LET b == ArgMaxUpTo(engines_results, Len(engines_results))
        IN /\ b >= 1
           /\ IF engines_results[b].confidence > 0
              THEN /\ Len(invoked) = Len(engines_results) + 1
                   /\ invoked[Len(invoked)] = engines_results[b].engine
                   /\ pc = "done" =>
                        /\ path = "reextracted"
                        /\ ~last_output.raised
                        /\ result = [text |-> last_output.text, confidence |-> last_output.confidence]
                        /\ response.confidence_score = last_output.confidence
              ELSE /\ Len(invoked) = Len(engines_results)
                   /\ pc = "done" /\ path = "exhausted"
           /\ \A i \in 1..Len(engines_results) : engines_results[i].engine = invoked[i]

\* C6: when no attempt was accepted, the earliest attempt of highest
\* confidence is selected; only if its confidence is > 0 that engine is
\* invoked once more and the call returns what this second invocation
\* returned, with the history of the loop left as the loop built it.
C6_BestReextracted ==
    /\ []C6_State
    /\ [][pc = "reawait" => engines_results' = engines_results]_vars
C6_Witness ==
    /\ pc = "done" /\ path = "reextracted"
    /\ Len(engines_results) = 3
    /\ engines_results[1].confidence = 0
    /\ engines_results[2].confidence = 3
    /\ engines_results[3].confidence = 3
    /\ invoked[4] = engines_results[2].engine
    /\ engines_results[2].engine # engines_results[3].engine
    /\ result.confidence = 7

\* C7: when every attempt raised or returned confidence 0, the call returns
\* ("", 0.0, history) with no further invocation and without raising; the
\* history has one entry per candidate tried, in the order tried.
C7_AllFailedReturnsEmpty ==
    (LoopOver /\ \A i \in 1..Len(engines_results) : engines_results[i].confidence = 0)
        => /\ pc = "done"
           /\ result = [text |-> <<>>, confidence |-> 0]
           /\ invoked = [i \in 1..Len(engines_results) |-> engines_results[i].engine]
           /\ Len(engines_results) = (IF enable_fallback THEN Len(engine_order) ELSE 1)
           /\ \A i \in 1..Len(engines_results) : engines_results[i].engine = engine_order[i]
C7_Witness ==
    /\ pc = "done" /\ path = "exhausted"
    /\ Len(engines_results) = 3
    /\ engines_results[1].success
    /\ ~engines_results[2].success
    /\ engines_results[3].success

ClaimedOrder(given) ==
    Keep(IF preferred_engine = "auto" \/ preferred_engine \notin engines
         THEN IF given THEN fallback_engines.list ELSE fallback_order
         ELSE IF enable_fallback
              THEN <<preferred_engine>> \o
                   Keep(IF given THEN fallback_engines.list ELSE fallback_order,
                        EngineNames \ {preferred_engine})
              ELSE <<preferred_engine>>,
         engines)

\* C9 (as claimed): the explicit list is used whenever it is given.
C9_OrderWhenGiven == CallStarted => engine_order = ClaimedOrder(fallback_engines.given)

\* C9 (amended): the explicit list is used when it is given and non-empty,
\* else settings.fallback_order; the preferred engine, when registered, comes
\* first and is followed, only with fallback enabled, by the other names in
\* their listed order; the whole is filtered to registered engines.
C9_OrderWhenGivenNonEmpty ==
    CallStarted =>
        /\ engine_order = ClaimedOrder(fallback_engines.given /\ fallback_engines.list # <<>>)
        /\ (~enable_fallback /\ preferred_engine \in engines) => engine_order = <<preferred_engine>>
C9_Witness ==
    /\ CallStarted
    /\ preferred_engine = "easyocr"
    /\ enable_fallback
    /\ fallback_engines = [given |-> TRUE, list |-> <<"easyocr", "kraken">>]
    /\ engine_order = <<"easyocr", "kraken">>

C10_State ==
    /\ Len(engines_results) <= Len(engine_order)
    /\ \A i \in 1..Len(engines_results) : engines_results[i].engine = engine_order[i]
    /\ inflight \in {0, 1}
    /\ inflight = 1 <=> pc \in {"awaiting", "reawait"}
    /\ Len(invoked) = Len(engines_results) + ReextractDone + inflight

\* C10: the engine names of the history are a prefix of the resolved order,
\* and at most one extract_text of the call is in flight: an invocation
\* starts only in a step in which the one in flight, if any, has returned or
\* raised and been recorded.
C10_SequentialPrefix ==
    /\ []C10_State
    /\ [][invoked' # invoked =>
            /\ invoked' = Append(invoked, invoked'[Len(invoked')])
            /\ inflight' = 1
            /\ inflight = 1 => Len(engines_results') = Len(engines_results) + 1]_vars
C10_Witness ==
    /\ pc = "reawait"
    /\ Len(engines_results) = 3
    /\ engines_results[1].engine # engines_results[3].engine
    /\ inflight = 1

\* ------------------------------------------------ claims on the extraction
\* vocabulary of the claims, stated without the operators of the model
SevenDigits19To26(number) ==
    /\ Len(number) = 7
    /\ \A i \in 1..7 : number[i] \in Digits
    /\ \E y \in 19..26 : <<number[1], number[2]>> = <<ToString(y \div 10), ToString(y % 10)>>
Extracted == stage = "extracted"
Validated == stage \in {"validated", "aggregated"}

\* C11: every mandat and every bordereau of the record extract_all returns
\* has a number of exactly 7 digits whose first two are one of 19..26; when
\* the best candidate of the text is not of that form the field is absent
C11_SerialFormat ==
    Extracted =>
        /\ record.mandat.some => SevenDigits19To26(record.mandat.number)
        /\ record.bordereau.some => SevenDigits19To26(record.bordereau.number)
        /\ \A c \in {BestGroup(CleanText(doc_text), MANDAT_PATTERNS)} :
              c.some /\ ~SevenDigits19To26(c.val) => ~record.mandat.some
        /\ \A c \in {BestGroup(CleanText(doc_text), BORDEREAU_PATTERNS)} :
              c.some /\ ~SevenDigits19To26(c.val) => ~record.bordereau.some
\* a text whose mandat candidate is rejected and whose bordereau is returned
C11_Witness ==
    /\ Extracted
    /\ BestGroup(CleanText(doc_text), MANDAT_PATTERNS).some
    /\ ~record.mandat.some
    /\ record.bordereau.some

\* the weights, in tenths, of the fields present in a record, and the sum
\* of weight times confidence (confidences in hundredths)
PresentWeight(rec) ==
    (IF rec.mandat.some THEN 4 ELSE 0) + (IF rec.bordereau.some THEN 3 ELSE 0)
        + (IF rec.exercice.some /\ rec.exercice.val # <<>> THEN 2 ELSE 0)
        + (IF rec.dates # <<>> \/ rec.amounts # <<>> THEN 1 ELSE 0)
PresentSum(rec) ==
    (IF rec.mandat.some THEN 4 * rec.mandat.confidence ELSE 0)
        + (IF rec.bordereau.some THEN 3 * rec.bordereau.confidence ELSE 0)
        + (IF rec.exercice.some /\ rec.exercice.val # <<>> THEN 2 * 90 ELSE 0)
        + (IF rec.dates # <<>> \/ rec.amounts # <<>> THEN 1 * 80 ELSE 0)
MandatOnlyAt(rec, confidence) ==
    /\ rec.mandat.some /\ rec.mandat.confidence = confidence
    /\ PresentWeight(rec) = 4

\* C14: the global confidence is the average of the present fields'
\* confidences weighted 0.4, 0.3, 0.2 (at 0.9) and 0.1 (at 0.8), the absent
\* fields left out of both sums; a mandat alone at 0.9 gives 0.9 and an
\* empty record gives 0
C14_WeightedAverage ==
    Validated =>
        /\ validation.confidence.den > 0
        /\ validation.confidence.num * PresentWeight(record) = validation.confidence.den * PresentSum(record)
        /\ PresentWeight(record) = 0 => validation.confidence.num = 0
        /\ MandatOnlyAt(record, 90) => validation.confidence = [num |-> 90, den |-> 1]
\* a record holding nothing but a mandat of confidence 0.9 was validated
C14_Witness ==
    /\ Validated
    /\ MandatOnlyAt(record, 90)
    /\ validation.confidence = [num |-> 90, den |-> 1]

StartsWith(s, prefix) == Len(s) >= Len(prefix) /\ SubSeq(s, 1, Len(prefix)) = prefix
InSeq(x, s) == \E i \in 1..Len(s) : s[i] = x
YearMismatch(rec) ==
    /\ rec.mandat.some
    /\ rec.exercice.some /\ rec.exercice.val # <<>>
    /\ FirstTwo(rec.mandat.number) # LastTwo(rec.exercice.val)
\* the errors validate_extraction can report: a present number that is not
\* of the format, a present exercice that is not an integer
FormatErrors(rec) ==
    (IF rec.mandat.some /\ ~SevenDigits19To26(rec.mandat.number) THEN 1 ELSE 0)
        + (IF rec.bordereau.some /\ ~SevenDigits19To26(rec.bordereau.number) THEN 1 ELSE 0)
        + (IF rec.exercice.some /\ rec.exercice.val # <<>>
              /\ \E i \in 1..Len(rec.exercice.val) : rec.exercice.val[i] \notin Digits
           THEN 1 ELSE 0)

\* C15: is_valid is true exactly when the error list is empty, in the
\* extractor's validation and in the validation service; a mandat prefix
\* that differs from the exercice's last two digits gives a warning and no
\* error; a missing mandat, bordereau or exercice gives a warning and no error
C15_ValidIffNoErrors ==
    /\ validation.done =>
        /\ validation.is_valid <=> validation.errors = <<>>
        /\ Len(validation.errors) = FormatErrors(record)
        /\ YearMismatch(record) =>
              \E i \in 1..Len(validation.warnings) :
                  StartsWith(validation.warnings[i], <<"I", "n", "c", "o", "h", "é", "r", "e", "n", "c", "e", " ", "a", "n", "n", "é", "e", " ", "m", "a", "n", "d", "a", "t">>)
        /\ ~record.mandat.some => InSeq(<<"A", "u", "c", "u", "n", " ", "m", "a", "n", "d", "a", "t", " ", "t", "r", "o", "u", "v", "é">>, validation.warnings)
        /\ ~record.bordereau.some => InSeq(<<"A", "u", "c", "u", "n", " ", "b", "o", "r", "d", "e", "r", "e", "a", "u", " ", "t", "r", "o", "u", "v", "é">>, validation.warnings)
        /\ ~(record.exercice.some /\ record.exercice.val # <<>>) =>
              InSeq(<<"A", "u", "c", "u", "n", " ", "e", "x", "e", "r", "c", "i", "c", "e", " ", "t", "r", "o", "u", "v", "é">>, validation.warnings)
    /\ service_validation.done =>
        (service_validation.is_valid <=> service_validation.errors = <<>>)
\* a mandat 24..., the exercice 2023 and no bordereau: two warnings, valid
C15_Witness ==
    /\ stage = "aggregated"
    /\ record.mandat.some /\ FirstTwo(record.mandat.number) = <<"2", "4">>
    /\ record.exercice = Some(<<"2", "0", "2", "3">>)
    /\ ~record.bordereau.some
    /\ validation.is_valid
    /\ Len(validation.warnings) = 2
    /\ ~service_validation.is_valid

ScenarioA(rec) ==
    /\ rec.mandat.some /\ rec.mandat.number = <<"2", "4", "1", "2", "0", "3", "4">> /\ rec.mandat.full_reference = <<"M", "D", "/", "2", "4", "1", "2", "0", "3", "4">>
    /\ rec.bordereau.some /\ rec.bordereau.number = <<"2", "4", "0", "2", "7", "5", "6">>
    /\ rec.exercice = Some(<<"2", "0", "2", "4">>)
NoIssues == validation.errors = <<>> /\ validation.warnings = <<>>
\* a record of valid numbers and of an exercice in range that agrees with
\* the mandat's prefix
Coherent(rec) ==
    /\ rec.mandat.some /\ SevenDigits19To26(rec.mandat.number)
    /\ rec.bordereau.some /\ SevenDigits19To26(rec.bordereau.number)
    /\ rec.exercice.some /\ Len(rec.exercice.val) = 4
    /\ \A i \in 1..4 : rec.exercice.val[i] \in Digits
    /\ \E y \in 2015..2030 : rec.exercice.val = <<"2", "0", ToString((y \div 10) % 10), ToString(y % 10)>>
    /\ LastTwo(rec.exercice.val) = FirstTwo(rec.mandat.number)
ContainsScenarioA(t) ==
    /\ Contains(t, <<"M", "D", "/", "2", "4", "1", "2", "0", "3", "4">>) /\ Contains(t, <<"B", "O", "R", "/", "2", "4", "0", "2", "7", "5", "6">>) /\ Contains(t, <<"E", "x", "e", "r", "c", "i", "c", "e", ":", " ", "2", "0", "2", "4">>)
\* every candidate the rules find in the text is the scenario's
OnlyCandidate(t, rule_list, number) ==
    \A ms \in {Discover(CleanText(t), rule_list)} : \A i \in 1..Len(ms) : ms[i].groups[1] = number
OnlyScenarioA(t) ==
    /\ ContainsScenarioA(t)
    /\ OnlyCandidate(t, MANDAT_PATTERNS, <<"2", "4", "1", "2", "0", "3", "4">>)
    /\ OnlyCandidate(t, BORDEREAU_PATTERNS, <<"2", "4", "0", "2", "7", "5", "6">>)
    /\ OnlyCandidate(t, EXERCICE_PATTERNS, <<"2", "0", "2", "4">>)

C17_EmissionDateFormatted ==
    Extracted /\ Contains(doc_text, <<"É", "m", "i", "s", " ", "l", "e", " ", "1", "5", " ", "d", "é", "c", "e", "m", "b", "r", "e", " ", "2", "0", "2", "4">>) =>
        /\ Len(record.dates) = 1
        /\ record.dates[1].type = "emission"
        /\ record.dates[1].formatted = <<"1", "5", "/", "1", "2", "/", "2", "0", "2", "4">>
\* what the code returns for such a text
C17_EmissionDateRaw ==
    Extracted /\ Contains(doc_text, <<"É", "m", "i", "s", " ", "l", "e", " ", "1", "5", " ", "d", "é", "c", "e", "m", "b", "r", "e", " ", "2", "0", "2", "4">>) =>
        /\ Len(record.dates) = 1
        /\ record.dates[1].type = "emission"
        /\ record.dates[1].formatted = <<"1", "5", " ", "d", "é", "c", "e", "m", "b", "r", "e", " ", "2", "0", "2", "4">>

\* --------------------------------------- claims on the rules and the amounts
DiscoveryIndex(ms, m) == CHOOSE i \in 1..Len(ms) : ms[i] = m
\* r holds the matches ms, by non-increasing priority, those of equal
\* priority in their order in ms
RankedFrom(r, ms) ==
    /\ Len(r) = Len(ms)
    /\ \A i \in 1..Len(ms) : InSeq(ms[i], r)
    /\ \A i, j \in 1..Len(r) :
          i < j => \/ r[i].priority > r[j].priority
                   \/ /\ r[i].priority = r[j].priority
                      /\ DiscoveryIndex(ms, r[i]) < DiscoveryIndex(ms, r[j])
\* the first of ms among those of the highest priority
FirstOfHighest(ms) ==
    ms[CHOOSE i \in 1..Len(ms) :
          /\ \A j \in 1..Len(ms) : ms[j].priority <= ms[i].priority
          /\ \A j \in 1..(i - 1) : ms[j].priority < ms[i].priority]

\* C12: find_all_matches returns the same sequence at every call on a text:
\* the matches by non-increasing priority, whatever their positions, those
\* of equal priority in the order they were found (rule by rule, and left
\* to right within a rule); find_best_match returns the first found among
\* those of the highest priority
C12_StableRanking ==
    \A ms \in {Discover(subject, Rules(rules))} :
        /\ \A k \in 1..Len(found) : found[k] = found[1] /\ RankedFrom(found[k], ms)
        /\ best.done =>
              best.value = IF ms = <<>> THEN None ELSE Some(FirstOfHighest(ms))
\* two calls returned a ranking that is not the order of the positions and
\* that holds two matches of one priority
C12_Witness ==
    /\ Len(found) = 2
    /\ best.done /\ best.value.some
    /\ \E i, j \in 1..Len(found[2]) :
          i < j /\ found[2][i].start > found[2][j].start
    /\ \E i, j \in 1..Len(found[2]) :
          i < j /\ found[2][i].priority = found[2][j].priority

NormalizesToNothing(raw) == ~normalize_amount(raw).some
PositiveAmounts(raws) ==
    Cardinality({i \in 1..Len(raws) : normalize_amount(raws[i]).some /\ normalize_amount(raws[i]).val.digits > 0})

\* C13: normalize_amount gives 5672860.0 for "5 672 860 FCFA" and for
\* "5,672,860", and no value for "abc"; extract_amounts leaves out a
\* candidate without a value and reports the others
C13_AmountNormalization ==
    /\ amount_value.done =>
        /\ subject = <<"5", " ", "6", "7", "2", " ", "8", "6", "0", " ", "F", "C", "F", "A">> => amount_value.value = Some([digits |-> 5672860, scale |-> 0])
        /\ subject = <<"5", ",", "6", "7", "2", ",", "8", "6", "0">> => amount_value.value = Some([digits |-> 5672860, scale |-> 0])
        /\ subject = <<"a", "b", "c">> => amount_value.value = None
    /\ amount_records.done =>
        /\ Len(amount_records.records) = PositiveAmounts(extract_all_amounts(subject))
        /\ \A i \in 1..Len(amount_records.records) : amount_records.records[i].value.digits > 0
\* a text with a candidate ("..") that has no value and one that has
C13_Witness ==
    /\ amount_value.done
    /\ amount_records.done
    /\ \E raws \in {extract_all_amounts(subject)} :
          /\ \E i \in 1..Len(raws) : NormalizesToNothing(raws[i])
          /\ Len(amount_records.records) < Len(raws)
    /\ amount_records.records # <<>>

\* ------------------------------------------------ claims on the adapters
LastReturn(a) == init_returns[a][Len(init_returns[a])]

\* C18: after any initialize() call that returns False, whatever calls came
\* before it on the adapter, the adapter is unavailable: is_initialized is
\* False and the factory does not hold it
C18_FailsClosed ==
    \A a \in adapter_made :
        init_returns[a] # <<>> /\ ~LastReturn(a) => ~is_initialized[a] /\ a \notin factory_engines
\* what the code keeps: an adapter whose every call returned False is
\* unavailable
C18_NeverInitializedUnavailable ==
    \A a \in adapter_made :
        (\A i \in 1..Len(init_returns[a]) : ~init_returns[a][i]) => ~is_initialized[a] /\ a \notin factory_engines

\* ------------------------------------------------ claims on the singleton
\* C19: however the get_ocr_factory() calls of the startup hook and of the
\* request handlers interleave, one OCRFactory at most is constructed, each
\* backend's initialize() runs once at most, and every caller is returned
\* the same factory
C19_ConstructedOnce ==
    /\ constructions <= 1
    /\ \A a \in EngineNames : initialize_runs[a] <= 1
    /\ \A c, d \in Callers : caller_got[c] # 0 /\ caller_got[d] # 0 => caller_got[c] = caller_got[d]
\* what the code keeps: after the startup hook has run, no other factory is
\* constructed
C19_OnceUnderLifespan ==
    lifespan => constructions <= 1 /\ \A c \in Callers : caller_got[c] \in {0, 1}

\* --------------------------------------------- claims on the recognition
\* C20: an attempt whose recognition failed is recorded with success False,
\* confidence 0.0 and an error message; an entry with success True comes
\* from a recognition that completed without error and carries no message
C20_FailureRecorded ==
    \A i \in 1..Len(engines_results) :
        /\ rec_raised[i] =>
              /\ ~engines_results[i].success
              /\ engines_results[i].confidence = 0
              /\ engines_results[i].error # "None"
        /\ engines_results[i].success => ~rec_raised[i] /\ engines_results[i].error = "None"

\* ---------------------------------------- claims on the validation's levels
\* a present fiscal year that is a number outside 2015..2030
YearOutOfRange(rec) ==
    /\ rec.exercice.some /\ rec.exercice.val # <<>>
    /\ \A i \in 1..Len(rec.exercice.val) : rec.exercice.val[i] \in Digits
    /\ ~(\E y \in 2015..2030 : rec.exercice.val = <<"2", "0", ToString((y \div 10) % 10), ToString(y % 10)>>)
\* a present mandat or bordereau number that is not of the format
SerialViolation(rec) ==
    \/ rec.mandat.some /\ ~SevenDigits19To26(rec.mandat.number)
    \/ rec.bordereau.some /\ ~SevenDigits19To26(rec.bordereau.number)

\* C21: a record whose fiscal year is outside 2015..2030, or whose mandat
\* or bordereau number is not 7 digits with a prefix 19..26, is validated
\* with at least one error and is_valid False
C21_FormatViolationsAreErrors ==
    Validated /\ (YearOutOfRange(record) \/ SerialViolation(record)) =>
        validation.errors # <<>> /\ ~validation.is_valid
\* what the code does: the numbers' violations are errors, a fiscal year
\* out of range is a warning
C21_SerialErrorsYearWarning ==
    Validated =>
        /\ SerialViolation(record) => validation.errors # <<>> /\ ~validation.is_valid
        /\ YearOutOfRange(record) =>
              \E i \in 1..Len(validation.warnings) :
                  StartsWith(validation.warnings[i], <<"E", "x", "e", "r", "c", "i", "c", "e", " ", "h", "o", "r", "s", " ", "p", "l", "a", "g", "e", " ", "v", "a", "l", "i", "d", "e">>)

\* ------------------------------------------------- claims on the categories
\* the occurrences extract_dates reports for the text extract_all cleaned
Occurrences(t) == extract_dates_from_text(CleanText(t))
\* the category of the words in the 50 characters before position pos
\* (from 0) of the cleaned text
WindowCategory(t, pos) == Categorize(ContextBefore(pos + 1, CleanText(t), 50), DateWords)
\* two occurrences of one date string whose windows give two categories
TwoWindows(t) ==
    \E i, j \in 1..Len(Occurrences(t)) :
        /\ i < j
        /\ Occurrences(t)[i].raw = Occurrences(t)[j].raw
        /\ WindowCategory(t, Occurrences(t)[i].position) # WindowCategory(t, Occurrences(t)[j].position)

\* C22: each date record has the category of the words in the 50
\* characters before its own occurrence, "autre" when none of the words is
\* there, also when the same date string occurs several times
C22_OwnWindow ==
    Extracted =>
        /\ Len(record.dates) = Len(Occurrences(doc_text))
        /\ \A i \in 1..Len(record.dates) :
              record.dates[i].type = WindowCategory(doc_text, Occurrences(doc_text)[i].position)
\* what the code does: every record of a date string has the category of
\* the window before the first occurrence of that string
C22_FirstOccurrenceWindow ==
    Extracted =>
        /\ Len(record.dates) = Len(Occurrences(doc_text))
        /\ \A i \in 1..Len(record.dates) :
              \E first \in 1..i :
                  /\ Occurrences(doc_text)[first].raw = Occurrences(doc_text)[i].raw
                  /\ \A k \in 1..(first - 1) : Occurrences(doc_text)[k].raw # Occurrences(doc_text)[i].raw
                  /\ record.dates[i].type = WindowCategory(doc_text, Occurrences(doc_text)[first].position)

\* ------------------------------------------------- claims on the separators
\* whole amounts as their digit groups, and the ways of writing them
AmountGroups == {<<<<"5">>, <<"6", "7", "2">>, <<"8", "6", "0">>>>, <<<<"1", "2">>, <<"5", "0", "0">>, <<"0", "0", "0">>>>}
GroupSeparators == {" ", ",", "."}
Written(groups, sep) == Join(groups, <<sep>>)
\* v is the whole number n
IsWhole(v, n) ==
    /\ v.some
    /\ v.val.digits % Pow10(v.val.scale) = 0
    /\ v.val.digits \div Pow10(v.val.scale) = n

\* C23: an amount written with its groups separated by spaces, by commas or
\* by periods, followed or not by FCFA, normalises to the number without
\* the separators
C23_SeparatorIndependent ==
    amount_value.done =>
        \A groups \in AmountGroups, sep \in GroupSeparators, suffix \in {<<>>, <<" ", "F", "C", "F", "A">>} :
            subject = Written(groups, sep) \o suffix =>
                IsWhole(amount_value.value, ToInt(Join(groups, <<>>)))
\* what the code does: spaces and commas are removed; of several periods
\* the last is kept as the decimal point
C23_SpacesAndCommas ==
    amount_value.done =>
        \A groups \in AmountGroups, suffix \in {<<>>, <<" ", "F", "C", "F", "A">>} :
            /\ \A sep \in {" ", ","} :
                  subject = Written(groups, sep) \o suffix =>
                      IsWhole(amount_value.value, ToInt(Join(groups, <<>>)))
            /\ subject = Written(groups, ".") \o suffix =>
                  /\ amount_value.value.some
                  /\ amount_value.value.val.digits = ToInt(Join(groups, <<>>))
                  /\ amount_value.value.val.scale = 3

\* ------------------------------------------------------ claims on the cache
\* the get that has just returned, and the set it answers: the last set of
\* its key, made with an explicit ttl and not followed by a delete or clear
GetAnswersSet(s) ==
    /\ cache_got.done
    /\ s = cache_set[cache_got.key]
    /\ s.valid /\ s.ttl.some

\* C24: after set(key, value, ttl) with an explicit ttl >= 0, a get(key)
\* made before ttl seconds have elapsed returns the value, and a get(key)
\* made after ttl seconds have elapsed returns None and removes the entry
C24_TtlHonoured ==
    \A s \in {cache_set[k] : k \in CacheKeys} :
        GetAnswersSet(s) =>
            /\ cache_got.at < s.at + s.ttl.val => cache_got.value = Some(s.value)
            /\ cache_got.at > s.at + s.ttl.val => cache_got.value = None /\ cache_got.removed
\* what the code does: the same for a ttl other than 0; a ttl of 0 is
\* replaced by settings.cache_ttl
C24_TtlHonouredUnlessZero ==
    \A s \in {cache_set[k] : k \in CacheKeys} :
        GetAnswersSet(s) =>
            LET ttl == IF s.ttl.val = 0 THEN cache_ttl ELSE s.ttl.val
            IN /\ cache_got.at < s.at + ttl => cache_got.value = Some(s.value)
               /\ cache_got.at > s.at + ttl => cache_got.value = None /\ cache_got.removed

\* --------------------------------------------------- claims on the tracking
InFlight == {r \in TrackedCalls : handler_pc[r] = "awaiting"}

\* C29: the gauge equals the number of wrapped calls in flight, whether the
\* calls return, raise or are cancelled, in any interleaving
C29_GaugeCountsInFlight == ACTIVE_REQUESTS = Cardinality(InFlight)
\* what the code does: the gauge also counts the calls that were cancelled
C29_GaugeCountsCancelled ==
    ACTIVE_REQUESTS = Cardinality(InFlight) + Cardinality({r \in TrackedCalls : handler_pc[r] = "cancelled"})

\* ---------------------------------------------------- claims on the store
\* C30: after delete_document(doc_id) returned True and until the content
\* is saved again, get_document(doc_id), get_document_content(doc_id) and
\* duplicate_check of the content return None
C30_DeletedIsGone ==
    doc_call.op \in {"get_document", "get_document_content", "duplicate_check"} /\ doc_call.doc_id \in deleted =>
        ~doc_call.found
\* what the code does: the three calls return None exactly when no file of
\* the directory holds the content
C30_GoneWhenNoCopyLeft ==
    doc_call.op \in {"get_document", "get_document_content", "duplicate_check"} =>
        (doc_call.found <=> \E f \in FileSlots : files[f] # NoFile /\ DocId(files[f]) = doc_call.doc_id)

\* the record is the one extract_all returns for the text and the
\* coordinate list of the state
FromExtractor == record = extract_all(doc_text, doc_coordinates)

\* C28: validate_extraction of a record that extract_all produced reports no
\* error and is_valid: the extractor has already dropped the serials of a
\* wrong format and the fiscal years outside 2015..2030, so the validator
\* can only add warnings.
C28_ExtractorOutputHasNoErrors ==
    (Validated /\ FromExtractor)
        => /\ validation.errors = <<>>
           /\ validation.is_valid
\* a text whose best mandat candidate and whose fiscal year were both
\* dropped by the extractor: the validation warns and reports no error
C28_Witness ==
    /\ Validated /\ FromExtractor
    /\ doc_text # <<>>
    /\ BestGroup(CleanText(doc_text), MANDAT_PATTERNS).some
    /\ ~record.mandat.some
    /\ BestGroup(CleanText(doc_text), EXERCICE_PATTERNS).some
    /\ ~HasExercice(record)
    /\ Len(validation.warnings) >= 2
    /\ validation.is_valid

\* C25: a call of extract_with_fallback only reads the shared state: the
\* engine registry, settings.fallback_order and the list the caller passed
\* as fallback_engines have the same elements in the same order in every
\* step of the call, whatever the arguments and the backends' outcomes, so
\* the candidate order of a call is the one the unchanged state resolves to.
C25_State ==
    CallStarted =>
        /\ fallback_engines = caller_list
        /\ engine_order = FilterAvailable(ResolveOrder(preferred_engine, enable_fallback, caller_list,
                                                       engines, fallback_order), engines)
HistoryEngines(h) == [i \in 1..Len(h) |-> h[i].engine]
NoRepeat(seq) == \A i, j \in 1..Len(seq) : seq[i] = seq[j] => i = j

\* C26 (as claimed): no engine name appears twice in the history of a call,
\* also when the fallback list or settings.fallback_order repeats a name.
C26_NoEngineTwice == CallStarted => NoRepeat(HistoryEngines(engines_results))
\* what the code does: the history follows the filtered order name by name,
\* so a name is attempted twice only when the order holds it twice
C26_TwiceOnlyWhenOrderRepeats ==
    CallStarted =>
        /\ HistoryEngines(engines_results) = SubSeq(engine_order, 1, Len(engines_results))
        /\ NoRepeat(engine_order) => NoRepeat(HistoryEngines(engines_results))

\* the history entry of the engine whose output the call returned: the last
\* one when an attempt was accepted, the earliest of highest confidence when
\* the best engine was invoked again; 0 when no engine produced the result
Producer ==
    IF path = "accepted" THEN Len(engines_results)
    ELSE IF path = "reextracted" THEN ArgMaxUpTo(engines_results, Len(engines_results))
    ELSE 0
Returned == pc = "done" /\ engines_results # <<>>

\* C27 (as claimed): a returned result agrees with the returned history: its
\* confidence is the one recorded for the engine that produced the text, and
\* a result returned when no attempt was accepted is not itself acceptable
\* (confidence >= threshold with a non-empty text), whatever the backends
\* return on successive invocations.
C27_ResultAgreesWithHistory ==
    Returned =>
        /\ Producer # 0 => result.confidence = engines_results[Producer].confidence
        /\ path # "accepted" => ~(result.confidence >= confidence_threshold /\ result.text # <<>>)
\* what the code does: an accepted result carries the confidence of the
\* last history entry; a re-extracted one is whatever the second invocation
\* returned; with no attempt above 0 the result is ("", 0.0)
C27_AgreesWhenAccepted ==
    Returned =>
        /\ path = "accepted" => result.confidence = engines_results[Producer].confidence
        /\ path = "reextracted" =>
              result = [text |-> last_output.text, confidence |-> last_output.confidence]
        /\ path \notin {"accepted", "reextracted"} => result = NoResult

====
